---------------------------- MODULE Spec2Model ----------------------------
(***************************************************************************)
(* Folding-range and highlight-block engine of vscode-highlight-block.     *)
(*                                                                         *)
(* Text is modelled as JavaScript sees it: a document is the sequence of   *)
(* lines text.split("\n") yields, each line a string; line numbers are     *)
(* 0-based as in the code (line i of the code is lines[i + 1] here).       *)
(* Regular expressions are written as syntax trees and run by a            *)
(* backtracking matcher that returns the end positions of all matches in   *)
(* the priority order of RegExp.prototype.exec.                            *)
(***************************************************************************)
EXTENDS Integers, Sequences, FiniteSets, TLC

VARIABLES
  lines,      \* the text handed to a single scanner, split at "\n"
  markers,    \* Object.keys(colorMappings): the configured marker names
  ranges,     \* the list a single scanner returned
  pending,    \* currentBlocks when the marker scanner returned
  stage,      \* "input" before the scanner ran, "scanned" after
  docs,       \* the open documents: languageId, file extension, text
  config,     \* highlightBlock.* settings
  calls,      \* the provideFoldingRanges calls, each with its position
  tmpFiles,   \* os.tmpdir(): file name -> content
  now,        \* Date.now()
  returned,   \* what provideFoldingRanges last handed to the host, per document
  editors,            \* vscode.window.visibleTextEditors: editor -> its document
  activeTextEditor,   \* vscode.window.activeTextEditor
  decorations,        \* what each visible editor shows: marker -> decorated lines
  activeDecorations,  \* HighlightBlockManager.activeDecorations
  timers,             \* the setTimeout callbacks not yet run, oldest first
  autoHighlight       \* highlightBlock.autoHighlight

\* The editors, the manager's map and the pending callbacks
uiVars == <<editors, activeTextEditor, decorations, activeDecorations, timers, autoHighlight>>

vars == <<lines, markers, ranges, pending, stage, docs, config, calls, tmpFiles, now, returned,
          uiVars>>

-----------------------------------------------------------------------------
(* Strings *)

Ch(s, i) == SubSeq(s, i, i)

WhiteSpace == {" ", "\t", "\n", "\r", "\f"}

WordChars ==
  {"a","b","c","d","e","f","g","h","i","j","k","l","m","n","o","p","q","r",
   "s","t","u","v","w","x","y","z","A","B","C","D","E","F","G","H","I","J",
   "K","L","M","N","O","P","Q","R","S","T","U","V","W","X","Y","Z","0","1",
   "2","3","4","5","6","7","8","9","_"}

LineTerminators == {"\n", "\r"}

Min(a, b) == IF a < b THEN a ELSE b
Max(a, b) == IF a > b THEN a ELSE b

\* String.prototype.trim
RECURSIVE trimStart(_)
trimStart(s) ==
  IF Len(s) > 0 /\ Ch(s, 1) \in WhiteSpace THEN trimStart(SubSeq(s, 2, Len(s))) ELSE s

RECURSIVE trimEnd(_)
trimEnd(s) ==
  IF Len(s) > 0 /\ Ch(s, Len(s)) \in WhiteSpace
  THEN trimEnd(SubSeq(s, 1, Len(s) - 1)) ELSE s

trim(s) == trimEnd(trimStart(s))

\* s.substring(i - 1).startsWith(t): t occurs in s at 1-based position i
occursAt(s, t, i) == i + Len(t) - 1 <= Len(s) /\ SubSeq(s, i, i + Len(t) - 1) = t

\* String.prototype.includes
includes(s, t) == \E i \in 1..(Len(s) + 1) : occursAt(s, t, i)

\* String.prototype.startsWith
startsWith(s, t) == occursAt(s, t, 1)

\* String.prototype.endsWith
endsWith(s, t) == Len(t) <= Len(s) /\ occursAt(s, t, Len(s) - Len(t) + 1)

\* (s.match(/t/g) || []).length for a literal t: non-overlapping occurrences
RECURSIVE countFrom(_, _, _)
countFrom(s, t, i) ==
  IF i + Len(t) - 1 > Len(s) THEN 0
  ELSE IF occursAt(s, t, i) THEN 1 + countFrom(s, t, i + Len(t))
  ELSE countFrom(s, t, i + 1)

countMatches(s, t) == countFrom(s, t, 1)

\* s.search(/\S/): 0-based position of the first non-blank character, -1 if none
RECURSIVE searchFrom(_, _)
searchFrom(s, i) ==
  IF i > Len(s) THEN -1
  ELSE IF Ch(s, i) \notin WhiteSpace THEN i - 1
  ELSE searchFrom(s, i + 1)

searchNonSpace(s) == searchFrom(s, 1)

\* Array.prototype.join("\n")
RECURSIVE joinFrom(_, _)
joinFrom(ls, k) ==
  IF k > Len(ls) THEN ""
  ELSE IF k = Len(ls) THEN ls[k]
  ELSE ls[k] \o "\n" \o joinFrom(ls, k + 1)

join(ls) == joinFrom(ls, 1)

\* text.substring(0, pos).split("\n").length - 1: the 0-based line of offset pos
\* (pos is a 0-based offset: the characters before it are 1..pos here)
lineOfOffset(text, pos) == Cardinality({k \in 1..pos : Ch(text, k) = "\n"})

-----------------------------------------------------------------------------
(* Regular expressions: syntax trees *)

Str(s)      == <<"str", s>>            \* a literal string
In(S)       == <<"in", S>>             \* [...]
NotIn(S)    == <<"notin", S>>          \* [^...]
Dot         == NotIn(LineTerminators)  \* . without the s flag
AnyCh       == NotIn({})               \* . with the s flag, [\s\S]
Sp          == In(WhiteSpace)          \* \s
Wd          == In(WordChars)           \* \w
Cat(a, b)   == <<"cat", a, b>>
Alt(a, b)   == <<"alt", a, b>>
Star(a)     == <<"star", a>>           \* a*
Lazy(a)     == <<"lazy", a>>           \* a*?
Plus(a)     == Cat(a, Star(a))         \* a+
Opt(a)      == Alt(a, Str(""))         \* a?
NotAhead(a) == <<"notahead", a>>       \* (?!a)

RECURSIVE CatAll(_)
CatAll(rs) == IF Len(rs) = 1 THEN rs[1] ELSE Cat(rs[1], CatAll(Tail(rs)))

RECURSIVE AltAll(_)
AltAll(rs) == IF Len(rs) = 1 THEN rs[1] ELSE Alt(rs[1], AltAll(Tail(rs)))

\* The end positions (1-based index of the character after the match) of the
\* matches of re in s that start at position i, best first.
RECURSIVE ReMatch(_, _, _)
RECURSIVE ReThen(_, _, _, _)
ReMatch(re, s, i) ==
  CASE re[1] = "str" -> IF occursAt(s, re[2], i) THEN <<i + Len(re[2])>> ELSE <<>>
    [] re[1] = "in" -> IF i <= Len(s) /\ Ch(s, i) \in re[2] THEN <<i + 1>> ELSE <<>>
    [] re[1] = "notin" -> IF i <= Len(s) /\ Ch(s, i) \notin re[2] THEN <<i + 1>> ELSE <<>>
    [] re[1] = "cat" -> ReThen(ReMatch(re[2], s, i), re[3], s, 1)
    [] re[1] = "alt" -> ReMatch(re[2], s, i) \o ReMatch(re[3], s, i)
    [] re[1] = "star" ->
         ReThen(SelectSeq(ReMatch(re[2], s, i), LAMBDA j : j > i), re, s, 1) \o <<i>>
    [] re[1] = "lazy" ->
         <<i>> \o ReThen(SelectSeq(ReMatch(re[2], s, i), LAMBDA j : j > i), <<"lazy", re[2]>>, s, 1)
    [] re[1] = "notahead" -> IF ReMatch(re[2], s, i) = <<>> THEN <<i>> ELSE <<>>

ReThen(js, re, s, k) ==
  IF k > Len(js) THEN <<>> ELSE ReMatch(re, s, js[k]) \o ReThen(js, re, s, k + 1)

\* /^re/.test(s)
testAtStart(re, s) == ReMatch(re, s, 1) # <<>>

\* /re/.test(s)
test(re, s) == \E i \in 1..(Len(s) + 1) : ReMatch(re, s, i) # <<>>

\* regex.exec(text) with the g flag and lastIndex = from - 1: the leftmost match
\* at or after position from, as <<start, end>> (1-based, end exclusive), or <<>>
RECURSIVE execFrom(_, _, _)
execFrom(re, text, from) ==
  IF from > Len(text) + 1 THEN <<>>
  ELSE LET ends == ReMatch(re, text, from)
       IN IF ends # <<>> THEN <<from, ends[1]>> ELSE execFrom(re, text, from + 1)


\* text.split("\n")
RECURSIVE splitFrom(_, _, _)
splitFrom(text, from, i) ==
  IF i > Len(text) THEN <<SubSeq(text, from, Len(text))>>
  ELSE IF Ch(text, i) = "\n"
       THEN <<SubSeq(text, from, i - 1)>> \o splitFrom(text, i + 1, i + 1)
       ELSE splitFrom(text, from, i + 1)

split(text) == splitFrom(text, 1, 1)

\* All sequences over S of length 0..n
RECURSIVE SeqsOfLen(_, _)
SeqsOfLen(S, n) ==
  IF n = 0 THEN {<<>>} ELSE {Append(q, x) : q \in SeqsOfLen(S, n - 1), x \in S}

SeqsUpTo(S, n) == UNION {SeqsOfLen(S, k) : k \in 0..n}

\* Array.prototype.push(...more)
RangeOf(q) == {q[k] : k \in 1..Len(q)}

-----------------------------------------------------------------------------
(* vscode.FoldingRange *)

FoldingRange(startLine, endLine, kind) ==
  [startLine |-> startLine, endLine |-> endLine, kind |-> kind]

\* The (startLine, endLine) pairs of a list of ranges
Spans(rs) == {<<rs[k].startLine, rs[k].endLine>> : k \in 1..Len(rs)}

\* The list of (startLine, endLine) pairs of a list of ranges, in order
SpanList(rs) == [k \in 1..Len(rs) |-> <<rs[k].startLine, rs[k].endLine>>]

-----------------------------------------------------------------------------
(* HighlightBlockManager.containsMarker and the marker scanner *)

\* The marker is pasted into the pattern source unescaped. Of the characters
\* that are special there the marker names of the model hold "." only: it
\* stands for any character but a line terminator; letters, digits and "-"
\* are literal.
markerSource(marker) ==
  IF \A k \in 1..Len(marker) : Ch(marker, k) # "." THEN Str(marker)
  ELSE CatAll([k \in 1..Len(marker) |->
                 IF Ch(marker, k) = "." THEN Dot ELSE Str(Ch(marker, k))])

commentPatterns(marker) ==
  << CatAll(<<Str("//"), Star(Dot), markerSource(marker)>>),
     CatAll(<<Str("#"), Star(Dot), markerSource(marker)>>),
     CatAll(<<Str("/*"), Star(Dot), markerSource(marker), Star(Dot), Str("*/")>>),
     CatAll(<<Str("<!--"), Star(Dot), markerSource(marker), Star(Dot), Str("-->")>>),
     CatAll(<<Str("\""), Star(Dot), markerSource(marker), Star(Dot), Str("\"")>>),
     CatAll(<<Str("'"), Star(Dot), markerSource(marker), Star(Dot), Str("'")>>) >>

\* A variant of containsMarker that also accepts a longer marker name with the
\* same stem: the name, any word characters, then the rest of the token
containsMarker_stem(line, marker) ==
  \/ includes(line, marker)
  \/ \E k \in 1..Len(marker) :
       /\ Ch(marker, k) = "-"
       /\ test(CatAll(<<Str(SubSeq(marker, 1, k - 1)), Star(Wd),
                        Str(SubSeq(marker, k, Len(marker)))>>), line)

containsMarker(line, marker) ==
  LET patterns == commentPatterns(marker) IN
  \/ \E k \in 1..Len(patterns) : test(patterns[k], line)
  \/ includes(line, marker)

startToken(marker) == marker \o "-start"
endToken(marker) == marker \o "-end"

\* The lines and marker names the specifications below draw their texts from
PythonLines == {"def f():", "    x = 1", "# a-start", "# a-end"}
JavaScriptLines == {"function f() {", "}", "// #region a-start", "// #endregion a-end"}
JsonLines == {"{", "}", "[\"a-start\",", "[\"a-end\"]"}
PlainLines == {"a-start", "  a-end", "", "'''"}
PairLines == {"# a-start", "// a-end", "x"}
PrefixLines == {"# error-start", "error-end", "err-start", "/* err-end */", ""}
MarkerNames == {"a", "err", "error", "or"}

\* containsMarker on the trimmed lines and the tokens above, computed once
containsMarkerOnInputs ==
  [line \in {trim(l) : l \in PythonLines \cup JavaScriptLines \cup JsonLines
                               \cup PlainLines \cup PairLines \cup PrefixLines} |->
     [token \in {startToken(m) : m \in MarkerNames} \cup {endToken(m) : m \in MarkerNames} |->
        containsMarker(line, token)]]

\* this.highlightManager.containsMarker(trimmedLine, token)
hasMarker(line, token) ==
  IF line \in DOMAIN containsMarkerOnInputs /\ token \in DOMAIN containsMarkerOnInputs[line]
  THEN containsMarkerOnInputs[line][token]
  ELSE containsMarker(line, token)

\* currentBlocks[marker] is undefined or null
NoBlock == -1

\* Lines 522-529: step back from the end-token line over blank lines
RECURSIVE skipBlankBack(_, _, _)
skipBlankBack(ls, startLine, endLine) ==
  IF endLine > startLine /\ trim(ls[endLine + 1]) = ""
  THEN skipBlankBack(ls, startLine, endLine - 1)
  ELSE endLine

\* A variant of markerStep that puts a finished block in front of the earlier
\* ones (unshift for push)
markerStep_unshift(ls, i, marker, st) ==
  LET trimmedLine == trim(ls[i + 1]) IN
  IF hasMarker(trimmedLine, startToken(marker))
  THEN [st EXCEPT !.cur[marker] = i]
  ELSE IF hasMarker(trimmedLine, endToken(marker))
  THEN IF st.cur[marker] # NoBlock
       THEN LET startLine == st.cur[marker]
                endLine == skipBlankBack(ls, startLine, i)
            IN [cur |-> [st.cur EXCEPT ![marker] = NoBlock],
                out |-> IF endLine > startLine
                        THEN <<[startLine |-> startLine, endLine |-> endLine,
                                kind |-> "Region", marker |-> marker]>> \o st.out
                        ELSE st.out]
       ELSE st
  ELSE st

\* A variant of markerStep in which a start token does not replace a
\* pending start
markerStep_keepsFirstStart(ls, i, marker, st) ==
  LET trimmedLine == trim(ls[i + 1]) IN
  IF hasMarker(trimmedLine, startToken(marker))
  THEN IF st.cur[marker] = NoBlock THEN [st EXCEPT !.cur[marker] = i] ELSE st
  ELSE IF hasMarker(trimmedLine, endToken(marker))
  THEN IF st.cur[marker] # NoBlock
       THEN LET startLine == st.cur[marker]
                endLine == skipBlankBack(ls, startLine, i)
            IN [cur |-> [st.cur EXCEPT ![marker] = NoBlock],
                out |-> IF endLine > startLine
                        THEN Append(st.out, [startLine |-> startLine, endLine |-> endLine,
                                             kind |-> "Region", marker |-> marker])
                        ELSE st.out]
       ELSE st
  ELSE st

\* The body of the forEach over the markers, for line i and one marker.
\* st = [cur |-> currentBlocks, out |-> the ranges pushed so far, each with
\* the marker that produced it]
markerStep(ls, i, marker, st) ==
  LET trimmedLine == trim(ls[i + 1]) IN
  IF hasMarker(trimmedLine, startToken(marker))
  THEN [st EXCEPT !.cur[marker] = i]
  ELSE IF hasMarker(trimmedLine, endToken(marker))
  THEN IF st.cur[marker] # NoBlock
       THEN LET startLine == st.cur[marker]
                endLine == skipBlankBack(ls, startLine, i)
            IN [cur |-> [st.cur EXCEPT ![marker] = NoBlock],
                out |-> IF endLine > startLine
                        THEN Append(st.out, [startLine |-> startLine, endLine |-> endLine,
                                             kind |-> "Region", marker |-> marker])
                        ELSE st.out]
       ELSE st
  ELSE st

RECURSIVE markerLoop(_, _, _, _, _)
markerLoop(ls, ms, i, k, st) ==
  IF i >= Len(ls) THEN st
  ELSE IF k > Len(ms) THEN markerLoop(ls, ms, i + 1, 1, st)
  ELSE markerLoop(ls, ms, i, k + 1, markerStep(ls, i, ms[k], st))

\* The quick check of lines 489-498
hasHighlightMarkers(text, ms) ==
  \E k \in 1..Len(ms) : includes(text, startToken(ms[k])) \/ includes(text, endToken(ms[k]))

\* A variant of markerScan that closes the blocks still pending at the end of
\* the input on the last line
RECURSIVE closePending(_, _, _, _)
closePending(ls, ms, k, st) ==
  IF k > Len(ms) THEN st
  ELSE LET startLine == st.cur[ms[k]]
           endLine == Len(ls) - 1
       IN closePending(ls, ms, k + 1,
            IF startLine # NoBlock /\ endLine > startLine
            THEN [st EXCEPT !.out = Append(@, [startLine |-> startLine, endLine |-> endLine,
                                              kind |-> "Region", marker |-> ms[k]])]
            ELSE st)

markerScan_closesPending(text, ms) ==
  LET none == [cur |-> [m \in RangeOf(ms) |-> NoBlock], out |-> <<>>] IN
  IF ~hasHighlightMarkers(text, ms) THEN none
  ELSE closePending(split(text), ms, 1, markerLoop(split(text), ms, 0, 1, none))

\* The scanner's final state: out, the ranges pushed, each with the marker it
\* belongs to, and cur, the blocks still pending
markerScan(text, ms) ==
  LET none == [cur |-> [m \in RangeOf(ms) |-> NoBlock], out |-> <<>>] IN
  IF ~hasHighlightMarkers(text, ms) THEN none
  ELSE markerLoop(split(text), ms, 0, 1, none)

markerBlocks(text, ms) == markerScan(text, ms).out

getHighlightBlockFoldingRanges(text, ms) ==
  LET bs == markerBlocks(text, ms)
  IN [k \in 1..Len(bs) |-> FoldingRange(bs[k].startLine, bs[k].endLine, bs[k].kind)]

-----------------------------------------------------------------------------
(* HighlightBlockFoldingProvider: region scanner *)

\* A variant of regionLoop that pairs an end line with the oldest open begin
\* line (shift for pop)
RECURSIVE regionLoop_fifo(_, _, _, _)
regionLoop_fifo(ls, i, regionStack, out) ==
  IF i >= Len(ls) THEN out
  ELSE LET trimmedLine == trim(ls[i + 1]) IN
       IF includes(trimmedLine, "#region") \/ includes(trimmedLine, "// #region")
       THEN regionLoop_fifo(ls, i + 1, Append(regionStack, i), out)
       ELSE IF includes(trimmedLine, "#endregion") \/ includes(trimmedLine, "// #endregion")
       THEN IF Len(regionStack) > 0
            THEN regionLoop_fifo(ls, i + 1, Tail(regionStack),
                                 IF i > regionStack[1]
                                 THEN Append(out, FoldingRange(regionStack[1], i, "Region"))
                                 ELSE out)
            ELSE regionLoop_fifo(ls, i + 1, regionStack, out)
       ELSE regionLoop_fifo(ls, i + 1, regionStack, out)

RECURSIVE regionLoop(_, _, _, _)
regionLoop(ls, i, regionStack, out) ==
  IF i >= Len(ls) THEN out
  ELSE LET trimmedLine == trim(ls[i + 1]) IN
       IF includes(trimmedLine, "#region") \/ includes(trimmedLine, "// #region")
       THEN regionLoop(ls, i + 1, Append(regionStack, i), out)
       ELSE IF includes(trimmedLine, "#endregion") \/ includes(trimmedLine, "// #endregion")
       THEN IF Len(regionStack) > 0
            THEN LET startLine == regionStack[Len(regionStack)]
                     rest == SubSeq(regionStack, 1, Len(regionStack) - 1)
                 IN regionLoop(ls, i + 1, rest,
                               IF i > startLine
                               THEN Append(out, FoldingRange(startLine, i, "Region"))
                               ELSE out)
            ELSE regionLoop(ls, i + 1, regionStack, out)
       ELSE regionLoop(ls, i + 1, regionStack, out)

getRegionBasedFolding(ls) == regionLoop(ls, 0, <<>>, <<>>)

-----------------------------------------------------------------------------
(* HighlightBlockFoldingProvider: whole-text run detection *)

TripleDouble == "\"\"\""
TripleSingle == "'''"

RECURSIVE trimBack(_, _, _)
trimBack(ls, i, endLine) ==
  IF i < 0 THEN endLine
  ELSE IF trim(ls[i + 1]) # "" THEN i
  ELSE trimBack(ls, i - 1, endLine)

trimTrailingEmptyLines(ls, endLine) == trimBack(ls, endLine, endLine)

holdsStartOf(line, firstLineOfMatch) ==
  \/ includes(line, firstLineOfMatch)
  \/ includes(line, TripleDouble)
  \/ includes(line, TripleSingle)

RECURSIVE findStartFrom(_, _, _, _)
findStartFrom(ls, i, firstLineOfMatch, calculatedStartLine) ==
  IF i >= Len(ls) THEN calculatedStartLine
  ELSE IF ls[i + 1] # "" /\ holdsStartOf(ls[i + 1], firstLineOfMatch) THEN i
  ELSE findStartFrom(ls, i + 1, firstLineOfMatch, calculatedStartLine)

findActualStartLine(ls, calculatedStartLine, matchedText) ==
  IF calculatedStartLine >= Len(ls) \/ ls[calculatedStartLine + 1] = ""
  THEN calculatedStartLine
  ELSE LET firstLineOfMatch == split(matchedText)[1] IN
       IF holdsStartOf(ls[calculatedStartLine + 1], firstLineOfMatch)
       THEN calculatedStartLine
       ELSE findStartFrom(ls, calculatedStartLine, firstLineOfMatch, calculatedStartLine)

\* Lines 189-201: the five patterns, each with the kind of its ranges
TripleDoubleRe ==
  CatAll(<<Str(TripleDouble),
           Star(AltAll(<<NotIn({"\"", "\\"}), Cat(Str("\\"), AnyCh),
                         Cat(Str("\""), NotAhead(Str("\"\"")))>>)),
           Str(TripleDouble)>>)

TripleSingleRe ==
  CatAll(<<Str(TripleSingle),
           Star(AltAll(<<NotIn({"'", "\\"}), Cat(Str("\\"), AnyCh),
                         Cat(Str("'"), NotAhead(Str("''")))>>)),
           Str(TripleSingle)>>)

BlockCommentRe == CatAll(<<Str("/*"), Lazy(AnyCh), Str("*/")>>)

HashLineRe == CatAll(<<Star(Str(" ")), Str("#"), Star(NotIn({"\n"}))>>)
MoreHashRe == CatAll(<<Opt(Str("\r")), Str("\n"), HashLineRe>>)
HashRunRe == CatAll(<<HashLineRe, MoreHashRe, MoreHashRe, Star(MoreHashRe)>>)

SlashLineRe == CatAll(<<Star(Str(" ")), Str("//"), Star(NotIn({"\n"}))>>)
MoreSlashRe == CatAll(<<Opt(Str("\r")), Str("\n"), SlashLineRe>>)
SlashRunRe == CatAll(<<SlashLineRe, Plus(MoreSlashRe)>>)

\* The body of the while loop for one match m = <<start, end>>
rangeOfMatch(text, ls, m, foldingKind) ==
  LET matchedText == SubSeq(text, m[1], m[2] - 1)
      startPos == m[1] - 1
      endPos == startPos + Len(matchedText)
      startLine == lineOfOffset(text, startPos)
      endLine == lineOfOffset(text, endPos)
  IN IF endLine > startLine + 1
     THEN LET trimmedEndLine == trimTrailingEmptyLines(ls, endLine) IN
          IF trimmedEndLine > startLine
          THEN <<FoldingRange(findActualStartLine(ls, startLine, matchedText),
                              trimmedEndLine, foldingKind)>>
          ELSE <<>>
     ELSE <<>>

RECURSIVE execLoop(_, _, _, _, _)
execLoop(text, ls, regex, foldingKind, from) ==
  LET m == execFrom(regex, text, from) IN
  IF m = <<>> THEN <<>>
  ELSE rangeOfMatch(text, ls, m, foldingKind)
         \o execLoop(text, ls, regex, foldingKind, IF m[2] > m[1] THEN m[2] ELSE m[2] + 1)

addFoldingRangesForRegex(text, ls, regex, foldingKind) ==
  execLoop(text, ls, regex, foldingKind, 1)

getRegexBasedFolding(ls) ==
  LET text == join(ls) IN
    addFoldingRangesForRegex(text, ls, TripleDoubleRe, "Region")
    \o addFoldingRangesForRegex(text, ls, TripleSingleRe, "Region")
    \o addFoldingRangesForRegex(text, ls, BlockCommentRe, "Comment")
    \o addFoldingRangesForRegex(text, ls, HashRunRe, "Comment")
    \o addFoldingRangesForRegex(text, ls, SlashRunRe, "Comment")

-----------------------------------------------------------------------------
(* HighlightBlockFoldingProvider: indentation scanner *)

\* /^\s*(def |class |if |for |while |try:|except|finally:|with |async def |elif |else:)/
StructureRe ==
  Cat(Star(Sp),
      AltAll(<<Str("def "), Str("class "), Str("if "), Str("for "), Str("while "),
               Str("try:"), Str("except"), Str("finally:"), Str("with "),
               Str("async def "), Str("elif "), Str("else:")>>))

\* /^\s*if __name__ == ['""]__main__['""]/
MainGuardRe ==
  CatAll(<<Star(Sp), Str("if __name__ == "), In({"'", "\""}), Str("__main__"),
           In({"'", "\""})>>)

isStructureDefinition(line) == testAtStart(StructureRe, line)

isImportantStructure(startLineContent) ==
  /\ startLineContent # ""
  /\ \/ testAtStart(StructureRe, startLineContent)
     \/ testAtStart(MainGuardRe, startLineContent)

isBlank(line) == trim(line) = ""
isHashComment(line) == startsWith(trim(line), "#")

\* Lines 168-177: the first code line after a comment start line
RECURSIVE nextCodeLine(_, _, _, _)
nextCodeLine(ls, i, startLine, endLine) ==
  IF i >= endLine THEN startLine
  ELSE IF ls[i + 1] # "" /\ ~isBlank(ls[i + 1]) /\ ~isHashComment(ls[i + 1]) /\ i < endLine - 1
       THEN i
       ELSE nextCodeLine(ls, i + 1, startLine, endLine)

adjustStartLineForIndentFolding(ls, startLine, endLine) ==
  LET startLineContent == ls[startLine + 1]
      foldSize == endLine - startLine
      inFold == {i \in startLine..endLine : ls[i + 1] # "" /\ ~isBlank(ls[i + 1])}
      commentLineCount == Cardinality({i \in inFold : isHashComment(ls[i + 1])})
      codeLineCount == Cardinality({i \in inFold : ~isHashComment(ls[i + 1])})
  IN IF startLineContent = "" THEN startLine
     ELSE IF foldSize <= 3 /\ commentLineCount >= codeLineCount THEN endLine
     ELSE IF isHashComment(startLineContent)
          THEN nextCodeLine(ls, startLine + 1, startLine, endLine)
          ELSE startLine

\* A variant of lastContentLine that takes the line before the closing
\* line, blank or not
lastContentLine_upTo(ls, from, upTo) ==
  IF upTo <= from THEN from ELSE upTo

\* The last non-blank line among from + 1 .. upTo, or from when there is none
RECURSIVE lastContentLine(_, _, _)
lastContentLine(ls, from, upTo) ==
  IF upTo <= from THEN from
  ELSE IF ~isBlank(ls[upTo + 1]) THEN upTo
  ELSE lastContentLine(ls, from, upTo - 1)

\* The range, if any, of a popped block whose last content line is last;
\* shouldCreateFold is the site's own condition, important the value of
\* isImportantStructure and actualStartLine the adjusted start line
foldFrom(indentInfo, last, shouldCreateFold, important, actualStartLine) ==
  IF (shouldCreateFold \/ important) /\ last > indentInfo.line
  THEN LET foldSize == last - actualStartLine
           minFoldSize == IF important THEN 0 ELSE 1
       IN IF actualStartLine < last /\ foldSize >= minFoldSize
          THEN <<FoldingRange(actualStartLine, last, "Region")>>
          ELSE <<>>
  ELSE <<>>

foldOfBlock(ls, indentInfo, last, shouldCreateFold) ==
  foldFrom(indentInfo, last, shouldCreateFold,
           isImportantStructure(ls[indentInfo.line + 1]),
           adjustStartLineForIndentFolding(ls, indentInfo.line, last))

\* Lines 280-319 and 414-451: pop every open block, each closing before line i
flushBlock(ls, indentInfo, last) ==
  foldOfBlock(ls, indentInfo, last, last > indentInfo.line)

RECURSIVE flushStack(_, _, _)
flushStack(ls, indentStack, i) ==
  IF Len(indentStack) = 0 THEN <<>>
  ELSE flushBlock(ls, indentStack[Len(indentStack)],
                  lastContentLine(ls, indentStack[Len(indentStack)].line, i - 1))
         \o flushStack(ls, SubSeq(indentStack, 1, Len(indentStack) - 1), i)

\* Lines 361-408: pop the blocks the indentation of line i closes.
\* Returns [stack, out]
RECURSIVE dedent(_, _, _, _, _)
RECURSIVE dedentBlock(_, _, _, _, _, _, _)
dedent(ls, indentStack, i, indent, out) ==
  IF Len(indentStack) > 0 /\ indentStack[Len(indentStack)].indent >= indent
  THEN dedentBlock(ls, indentStack[Len(indentStack)],
                   SubSeq(indentStack, 1, Len(indentStack) - 1), i, indent, out,
                   lastContentLine(ls, indentStack[Len(indentStack)].line, i - 1))
  ELSE [stack |-> indentStack, out |-> out]

\* Lines 362-407: the popped block indentInfo, whose last content line is last
dedentBlock(ls, indentInfo, rest, i, indent, out, last) ==
  LET hasMultipleLines == last > indentInfo.line
      shouldCreateFold ==
        \/ indentInfo.indent > indent
        \/ (indentInfo.indent = indent /\ hasMultipleLines)
  IN IF indentInfo.indent = indent
     THEN [stack |-> rest, out |-> out \o foldOfBlock(ls, indentInfo, last, shouldCreateFold)]
     ELSE dedent(ls, rest, i, indent,
                 out \o foldOfBlock(ls, indentInfo, last, shouldCreateFold))

\* Lines 268-275: is the nearest non-blank line among the three lines before
\* line i a structure definition
RECURSIVE prevIsStructure(_, _, _)
prevIsStructure(ls, checkIdx, i) ==
  IF checkIdx < Max(0, i - 3) THEN FALSE
  ELSE IF ls[checkIdx + 1] # "" /\ ~isBlank(ls[checkIdx + 1])
       THEN isStructureDefinition(ls[checkIdx + 1])
       ELSE prevIsStructure(ls, checkIdx - 1, i)

\* Lines 409-410: the line is pushed on what dedent left, d = [stack, out]
pushLine(i, indent, strings, d) ==
  [stack |-> Append(d.stack, [line |-> i, indent |-> indent]),
   strings |-> strings, out |-> d.out]

\* Lines 323-410 of one pass; s1 is the state after lines 266-321
trackLine(ls, i, tripleQuoteCount, singleTripleQuoteCount, noString, indent, s1) ==
  \* lines 324-338
  IF tripleQuoteCount > 0 /\ noString /\ tripleQuoteCount % 2 = 1
  THEN [s1 EXCEPT !.strings = Append(s1.strings, i)]
  ELSE IF tripleQuoteCount > 0 /\ ~noString /\ tripleQuoteCount % 2 = 1
  THEN [s1 EXCEPT !.strings = SubSeq(s1.strings, 1, Len(s1.strings) - 1)]
  \* lines 341-353
  ELSE IF singleTripleQuoteCount > 0 /\ noString /\ singleTripleQuoteCount % 2 = 1
  THEN [s1 EXCEPT !.strings = Append(s1.strings, i)]
  ELSE IF singleTripleQuoteCount > 0 /\ ~noString /\ singleTripleQuoteCount % 2 = 1
  THEN [s1 EXCEPT !.strings = SubSeq(s1.strings, 1, Len(s1.strings) - 1)]
  \* line 355
  ELSE IF Len(s1.strings) > 0 THEN s1
  ELSE IF indent = -1 THEN s1
  ELSE pushLine(i, indent, s1.strings, dedent(ls, s1.stack, i, indent, s1.out))

\* One pass of the for loop; st = [stack, strings, out]
indentStep(ls, i, st) ==
  LET line == ls[i + 1]
      tripleQuoteCount == countMatches(line, TripleDouble)
      singleTripleQuoteCount == countMatches(line, TripleSingle)
      noString == Len(st.strings) = 0
      isMultiLineStringStart ==
        \/ (tripleQuoteCount > 0 /\ noString /\ tripleQuoteCount % 2 = 1)
        \/ (singleTripleQuoteCount > 0 /\ noString /\ singleTripleQuoteCount % 2 = 1)
      flush == isMultiLineStringStart /\ ~prevIsStructure(ls, i - 1, i)
  IN IF isBlank(line) THEN st
     ELSE trackLine(ls, i, tripleQuoteCount, singleTripleQuoteCount, noString,
                    searchNonSpace(line),
                    \* lines 266-321
                    IF flush
                    THEN [st EXCEPT !.stack = <<>>,
                                    !.out = st.out \o flushStack(ls, st.stack, i)]
                    ELSE st)

RECURSIVE indentLoop(_, _, _)
indentLoop(ls, i, st) ==
  IF i >= Len(ls) THEN st ELSE indentLoop(ls, i + 1, indentStep(ls, i, st))

\* Lines 413-451: the blocks still open at the end of the input
flushAtEnd(ls, st) == st.out \o flushStack(ls, st.stack, Len(ls))

getIndentBasedFolding(ls) ==
  flushAtEnd(ls, indentLoop(ls, 0, [stack |-> <<>>, strings |-> <<>>, out |-> <<>>]))

-----------------------------------------------------------------------------
(* SyntaxFoldingProvider: header patterns *)

Kw(word) == Cat(Str(word), Plus(Sp))                       \* word\s+
Head3(word) == CatAll(<<Str(word), Plus(Sp), Plus(Wd), Lazy(Dot)>>)  \* word\s+\w+.*?
Paren(word) ==                                              \* word\s*\(.*?\)\s*\{
  CatAll(<<Str(word), Star(Sp), Str("("), Lazy(Dot), Str(")"), Star(Sp), Str("{")>>)
Open(word) == CatAll(<<Str(word), Star(Sp), Str("{")>>)     \* word\s*\{
ElseRe ==                                                   \* else\s*\{|else\s+if.*?\{
  Alt(Open("else"), CatAll(<<Str("else"), Plus(Sp), Str("if"), Lazy(Dot), Str("{")>>))

\* parsePythonWithRegex: patterns, each after ^\s*
pythonPatterns ==
  << CatAll(<<Head3("def"), Str(":")>>),
     CatAll(<<Kw("async"), Head3("def"), Str(":")>>),
     CatAll(<<Head3("class"), Str(":")>>),
     CatAll(<<Kw("if"), Lazy(Dot), Str(":")>>),
     CatAll(<<Kw("elif"), Lazy(Dot), Str(":")>>),
     CatAll(<<Str("else"), Star(Sp), Str(":")>>),
     CatAll(<<Kw("for"), Lazy(Dot), Str(":")>>),
     CatAll(<<Kw("while"), Lazy(Dot), Str(":")>>),
     CatAll(<<Str("try"), Star(Sp), Str(":")>>),
     CatAll(<<Str("except"), Lazy(Dot), Str(":")>>),
     CatAll(<<Str("finally"), Star(Sp), Str(":")>>),
     CatAll(<<Kw("with"), Lazy(Dot), Str(":")>>),
     CatAll(<<Kw("match"), Lazy(Dot), Str(":")>>) >>

\* parseJavaScriptWithRegex
javaScriptPatterns ==
  << Alt(CatAll(<<Head3("function"), Str("{")>>),
         CatAll(<<Kw("async"), Head3("function"), Str("{")>>)),
     CatAll(<<Lazy(Dot), Str("=>"), Star(Sp), Str("{")>>),
     CatAll(<<Head3("class"), Str("{")>>),
     Paren("if"), ElseRe, Paren("for"), Paren("while"), Open("try"),
     Paren("catch"), Open("finally"), Paren("switch") >>

\* parseJavaWithRegex
javaPatterns ==
  << CatAll(<<Star(AltAll(<<Kw("public"), Kw("private"), Kw("protected")>>)),
              Head3("class"), Str("{")>>),
     CatAll(<<Star(AltAll(<<Kw("public"), Kw("private"), Kw("protected"), Kw("static")>>)),
              Lazy(Dot), Plus(Wd), Star(Sp), Str("("), Lazy(Dot), Str(")"), Star(Sp),
              Str("{")>>),
     Paren("if"), ElseRe, Paren("for"), Paren("while"), Open("try"),
     Paren("catch"), Open("finally") >>

\* The for loop over Object.entries(patterns): does any pattern match the line
matchedPattern(patterns, line) ==
  \E k \in 1..Len(patterns) : testAtStart(Cat(Star(Sp), patterns[k]), line)

-----------------------------------------------------------------------------
(* SyntaxFoldingProvider: header-driven scanners *)

\* Lines 383-389: pop and emit the blocks line i closes. Returns [stack, out]
RECURSIVE closeIndented(_, _, _, _)
closeIndented(stack, i, indent, out) ==
  IF Len(stack) > 0 /\ stack[Len(stack)].indent >= indent
  THEN LET block == stack[Len(stack)]
           endLine == i - 1
       IN closeIndented(SubSeq(stack, 1, Len(stack) - 1), i, indent,
                        IF endLine > block.startLine
                        THEN Append(out, FoldingRange(block.startLine, endLine, "Region"))
                        ELSE out)
  ELSE [stack |-> stack, out |-> out]

\* Lines 402-408: the blocks left at the end of the file
RECURSIVE closeRemaining(_, _, _)
closeRemaining(stack, endLine, out) ==
  IF Len(stack) = 0 THEN out
  ELSE LET block == stack[Len(stack)]
       IN closeRemaining(SubSeq(stack, 1, Len(stack) - 1), endLine,
                         IF endLine > block.startLine
                         THEN Append(out, FoldingRange(block.startLine, endLine, "Region"))
                         ELSE out)

RECURSIVE indentBlockLoop(_, _, _, _, _)
indentBlockLoop(ls, patterns, i, stack, out) ==
  IF i >= Len(ls) THEN closeRemaining(stack, Len(ls) - 1, out)
  ELSE LET line == ls[i + 1]
           trimmed == trim(line)
           indent == searchNonSpace(line)
           c == closeIndented(stack, i, indent, out)
       IN IF trimmed = "" \/ startsWith(trimmed, "#") \/ indent = -1
          THEN indentBlockLoop(ls, patterns, i + 1, stack, out)
          ELSE indentBlockLoop(ls, patterns, i + 1,
                 IF matchedPattern(patterns, line)
                 THEN Append(c.stack, [startLine |-> i, indent |-> indent])
                 ELSE c.stack,
                 c.out)

findBlocksWithIndent(ls, patterns) == indentBlockLoop(ls, patterns, 0, <<>>, <<>>)

\* Lines 450-455: from the top of the stack down, splice out and emit every
\* block whose count is back at 0 on a line after its header. Returns [stack, out]
RECURSIVE closeBraced(_, _, _, _)
closeBraced(stack, j, i, out) ==
  IF j < 1 THEN [stack |-> stack, out |-> out]
  ELSE IF stack[j].braceCount = 0 /\ i > stack[j].startLine
       THEN closeBraced(SubSeq(stack, 1, j - 1) \o SubSeq(stack, j + 1, Len(stack)),
                        j - 1, i,
                        Append(out, FoldingRange(stack[j].startLine, i, "Region")))
       ELSE closeBraced(stack, j - 1, i, out)

RECURSIVE braceBlockLoop(_, _, _, _, _)
braceBlockLoop(ls, patterns, i, stack, out) ==
  IF i >= Len(ls) THEN out
  ELSE LET line == ls[i + 1]
           trimmed == trim(line)
           pushed == IF matchedPattern(patterns, line)
                     THEN Append(stack, [startLine |-> i, braceCount |-> 0])
                     ELSE stack
           openBraces == countMatches(line, "{")
           closeBraces == countMatches(line, "}")
           counted == [k \in 1..Len(pushed) |->
                        [pushed[k] EXCEPT !.braceCount = @ + openBraces - closeBraces]]
           c == closeBraced(counted, Len(counted), i, out)
       IN IF trimmed = "" \/ startsWith(trimmed, "//") \/ startsWith(trimmed, "/*")
          THEN braceBlockLoop(ls, patterns, i + 1, stack, out)
          ELSE braceBlockLoop(ls, patterns, i + 1, c.stack, c.out)

findBlocksWithBraces(ls, patterns) == braceBlockLoop(ls, patterns, 0, <<>>, <<>>)

\* A variant of popRange that also emits a block whose delimiters share a line
popRange_sameLine(stack, i) ==
  IF i >= stack[Len(stack)] THEN <<FoldingRange(stack[Len(stack)], i, "Region")>> ELSE <<>>

\* The last element of a non-empty stack popped, and the range it closes at line i
popRange(stack, i) ==
  IF i > stack[Len(stack)] THEN <<FoldingRange(stack[Len(stack)], i, "Region")>> ELSE <<>>

Pop(stack) == SubSeq(stack, 1, Len(stack) - 1)

\* A variant of jsonLoop that closes the braces and brackets still open at
\* the end of the input on the last line
RECURSIVE jsonLoop_closesPending(_, _, _, _, _)
jsonLoop_closesPending(ls, i, braceStack, bracketStack, out) ==
  IF i >= Len(ls)
  THEN out \o [k \in 1..Len(braceStack) |-> FoldingRange(braceStack[k], Len(ls) - 1, "Region")]
           \o [k \in 1..Len(bracketStack) |-> FoldingRange(bracketStack[k], Len(ls) - 1, "Region")]
  ELSE LET trimmed == trim(ls[i + 1])
           braces == IF includes(trimmed, "{") THEN Append(braceStack, i) ELSE braceStack
           brackets == IF includes(trimmed, "[") THEN Append(bracketStack, i) ELSE bracketStack
           closesBrace == includes(trimmed, "}") /\ Len(braces) > 0
           closesBracket == includes(trimmed, "]") /\ Len(brackets) > 0
       IN jsonLoop_closesPending(ls, i + 1,
                   IF closesBrace THEN Pop(braces) ELSE braces,
                   IF closesBracket THEN Pop(brackets) ELSE brackets,
                   out \o (IF closesBrace THEN popRange(braces, i) ELSE <<>>)
                       \o (IF closesBracket THEN popRange(brackets, i) ELSE <<>>))

RECURSIVE jsonLoop(_, _, _, _, _)
jsonLoop(ls, i, braceStack, bracketStack, out) ==
  IF i >= Len(ls) THEN out
  ELSE LET trimmed == trim(ls[i + 1])
           braces == IF includes(trimmed, "{") THEN Append(braceStack, i) ELSE braceStack
           brackets == IF includes(trimmed, "[") THEN Append(bracketStack, i) ELSE bracketStack
           closesBrace == includes(trimmed, "}") /\ Len(braces) > 0
           closesBracket == includes(trimmed, "]") /\ Len(brackets) > 0
       IN jsonLoop(ls, i + 1,
                   IF closesBrace THEN Pop(braces) ELSE braces,
                   IF closesBracket THEN Pop(brackets) ELSE brackets,
                   out \o (IF closesBrace THEN popRange(braces, i) ELSE <<>>)
                       \o (IF closesBracket THEN popRange(brackets, i) ELSE <<>>))

parseJsonWithRegex(ls) == jsonLoop(ls, 0, <<>>, <<>>, <<>>)

parsePythonWithRegex(ls) == findBlocksWithIndent(ls, pythonPatterns)
parseJavaScriptWithRegex(ls) == findBlocksWithBraces(ls, javaScriptPatterns)
parseJavaWithRegex(ls) == findBlocksWithBraces(ls, javaPatterns)

\* parseWithRegex: the ranges it pushes
parseWithRegex(text, languageType) ==
  LET ls == split(text) IN
  CASE languageType = "python" -> parsePythonWithRegex(ls)
    [] languageType \in {"javascript", "typescript"} -> parseJavaScriptWithRegex(ls)
    [] languageType = "java" -> parseJavaWithRegex(ls)
    [] languageType = "json" -> parseJsonWithRegex(ls)
    [] OTHER -> <<>>

-----------------------------------------------------------------------------
(* Language detection *)

\* fileName.split(".").pop(): the text after the last "."
RECURSIVE lastPart(_, _)
lastPart(fileName, i) ==
  IF i < 1 THEN fileName
  ELSE IF Ch(fileName, i) = "." THEN SubSeq(fileName, i + 1, Len(fileName))
  ELSE lastPart(fileName, i - 1)

UpperToLower ==
  [c \in {"A","B","C","D","E","F","G","H","I","J","K","L","M","N","O","P","Q","R",
          "S","T","U","V","W","X","Y","Z"} |->
     CASE c = "A" -> "a" [] c = "B" -> "b" [] c = "C" -> "c" [] c = "D" -> "d"
       [] c = "E" -> "e" [] c = "F" -> "f" [] c = "G" -> "g" [] c = "H" -> "h"
       [] c = "I" -> "i" [] c = "J" -> "j" [] c = "K" -> "k" [] c = "L" -> "l"
       [] c = "M" -> "m" [] c = "N" -> "n" [] c = "O" -> "o" [] c = "P" -> "p"
       [] c = "Q" -> "q" [] c = "R" -> "r" [] c = "S" -> "s" [] c = "T" -> "t"
       [] c = "U" -> "u" [] c = "V" -> "v" [] c = "W" -> "w" [] c = "X" -> "x"
       [] c = "Y" -> "y" [] c = "Z" -> "z"]

RECURSIVE toLowerCase(_)
toLowerCase(s) ==
  IF Len(s) = 0 THEN ""
  ELSE (IF Ch(s, 1) \in DOMAIN UpperToLower THEN UpperToLower[Ch(s, 1)] ELSE Ch(s, 1))
         \o toLowerCase(SubSeq(s, 2, Len(s)))

extensionOf(fileName) == toLowerCase(lastPart(fileName, Len(fileName)))

\* HighlightBlockFoldingProvider.getLanguageExtensions
getLanguageExtensions(languageId) ==
  CASE languageId = "javascript" -> {"js", "jsx", "mjs"}
    [] languageId = "typescript" -> {"ts", "tsx"}
    [] languageId = "python" -> {"py", "pyw"}
    [] languageId = "java" -> {"java"}
    [] languageId = "json" -> {"json"}
    [] OTHER -> {}

\* A variant of isLanguageSupported that takes every language as listed
isLanguageSupported_always(document, supportedLanguages) == TRUE

\* Lines 37-43 of provideFoldingRanges
isLanguageSupported(document, supportedLanguages) ==
  \/ document.languageId \in RangeOf(supportedLanguages)
  \/ \E k \in 1..Len(supportedLanguages) :
       extensionOf(document.fileName) \in getLanguageExtensions(supportedLanguages[k])

\* no parser: getLanguageType returns null
NoLanguage == "null"

\* SyntaxFoldingProvider.supportedLanguages
syntaxLanguages == {"python", "javascript", "typescript", "java", "json"}

\* SyntaxFoldingProvider.getLanguageType
getLanguageType(document) ==
  LET extension == extensionOf(document.fileName) IN
  IF document.languageId \in syntaxLanguages THEN document.languageId
  ELSE CASE extension \in {"py", "pyw"} -> "python"
         [] extension \in {"js", "jsx", "mjs"} -> "javascript"
         [] extension \in {"ts", "tsx"} -> "typescript"
         [] extension = "java" -> "java"
         [] extension = "json" -> "json"
         [] OTHER -> NoLanguage

-----------------------------------------------------------------------------
(* provideFoldingRanges: one call, from its start to its return *)

\* All texts of 1..n lines over a set of lines
TextsUpTo(S, n) == {join(ls) : ls \in SeqsUpTo(S, n) \ {<<>>}}

\* The longest document of the provideFoldingRanges specification, in lines
MaxDocLines == 3

Documents(languageId, fileName, S) ==
  {[languageId |-> languageId, fileName |-> fileName, text |-> t] :
     t \in TextsUpTo(S, MaxDocLines)}

OpenDocuments ==
  Documents("python", "a.py", PythonLines)
  \cup Documents("javascript", "a.js", JavaScriptLines)
  \cup Documents("json", "a.json", JsonLines)
  \cup Documents("plaintext", "a.txt", PlainLines)

EmptyDocument == [languageId |-> "plaintext", fileName |-> "Untitled-1", text |-> ""]

\* The empty documents of the languages with an external parser
EmptyDocuments ==
  {[languageId |-> "python", fileName |-> "a.py", text |-> ""],
   [languageId |-> "javascript", fileName |-> "a.js", text |-> ""]}

\* The Python documents scanned again and again
ScanDocuments ==
  {[languageId |-> "python", fileName |-> "a.py", text |-> join(<<"def f():", "    x = 1">>)],
   [languageId |-> "python", fileName |-> "a.py", text |-> join(<<"# a-start", "# a-end">>)]}

\* A Python document and a plain-text one with a region around a statement
RegionDocuments ==
  {[languageId |-> "python", fileName |-> "a.py",
    text |-> join(<<"# #region", "x = 1", "# #endregion">>)],
   [languageId |-> "plaintext", fileName |-> "a.txt",
    text |-> join(<<"// #region", "x", "// #endregion">>)]}

\* The texts of these documents
KnownTexts ==
  {d.text : d \in OpenDocuments \cup ScanDocuments \cup RegionDocuments \cup {EmptyDocument}}

\* The scanners of lines 58-78 on each of these texts, computed once
scannersOnInputs ==
  [text \in KnownTexts |->
     [regexRanges |-> getRegexBasedFolding(split(text)),
      regionRanges |-> getRegionBasedFolding(split(text)),
      indentRanges |-> getIndentBasedFolding(split(text))]]

\* this.getRegexBasedFolding, this.getRegionBasedFolding and
\* this.getIndentBasedFolding on document.getText().split("\n")
scanners(text) ==
  IF text \in DOMAIN scannersOnInputs THEN scannersOnInputs[text]
  ELSE [regexRanges |-> getRegexBasedFolding(split(text)),
        regionRanges |-> getRegionBasedFolding(split(text)),
        indentRanges |-> getIndentBasedFolding(split(text))]

\* parseWithRegex on each of these texts as Python and as JavaScript, computed once
parseWithRegexOnInputs ==
  [text \in KnownTexts |->
     [languageType \in {"python", "javascript"} |-> parseWithRegex(text, languageType)]]

\* The catch branches' parseWithRegex(text, languageType)
regexFallback(text, languageType) ==
  IF text \in DOMAIN parseWithRegexOnInputs /\ languageType \in {"python", "javascript"}
  THEN parseWithRegexOnInputs[text][languageType]
  ELSE parseWithRegex(text, languageType)

DocIds == {"A", "B"}
CallIds == {"c1", "c2"}

NoFile == "none"
NoResult == [null |-> TRUE, ranges |-> <<>>, settled |-> FALSE]

\* A call that has not started
IdleCall ==
  [pc |-> "idle", doc |-> "A", text |-> "", languageType |-> NoLanguage,
   enableRegexFolding |-> FALSE, enableIndentFolding |-> FALSE,
   tempFile |-> NoFile, highlightRanges |-> <<>>, syntaxRanges |-> <<>>,
   oracle |-> <<>>, oracleInput |-> "", allFoldingRanges |-> <<>>, result |-> NoResult]

\* `vscode_syntax_${Date.now()}.py` / .js in os.tmpdir()
tempFileName(time, suffix) == <<time, suffix>>

\* fs.writeFileSync
writeFile(fs, name, content) ==
  [n \in DOMAIN fs \cup {name} |-> IF n = name THEN content ELSE fs[n]]

\* fs.unlinkSync inside try/catch: a missing file is ignored
unlinkFile(fs, name) == [n \in DOMAIN fs \ {name} |-> fs[n]]

\* A variant of rangesUnderFlags that runs the region scanner whatever the flag
rangesUnderFlags_regionsAlways(call, found) ==
  (IF call.enableRegexFolding THEN found.regexRanges ELSE <<>>)
  \o found.regionRanges
  \o (IF call.enableIndentFolding THEN found.indentRanges ELSE <<>>)

\* Lines 58-82: the scanners that run after the syntax scanner, on the text
\* the document holds then, and the value returned
rangesUnderFlags(call, found) ==
  (IF call.enableRegexFolding THEN found.regexRanges \o found.regionRanges ELSE <<>>)
  \o (IF call.enableIndentFolding THEN found.indentRanges ELSE <<>>)

restOfRanges(text, call) == rangesUnderFlags(call, scanners(text))

\* A variant of returnValue that returns the list as it is, empty or not
returnValue_list(allFoldingRanges) ==
  [null |-> FALSE, ranges |-> allFoldingRanges, settled |-> TRUE]

returnValue(allFoldingRanges) ==
  IF Len(allFoldingRanges) > 0
  THEN [null |-> FALSE, ranges |-> allFoldingRanges, settled |-> TRUE]
  ELSE [null |-> TRUE, ranges |-> <<>>, settled |-> TRUE]

\* Lines 80-82: the call returns the list allFoldingRanges, or null
returns(call, syntaxRanges, allFoldingRanges) ==
  [call EXCEPT !.pc = "done", !.syntaxRanges = syntaxRanges,
               !.allFoldingRanges = allFoldingRanges,
               !.result = returnValue(allFoldingRanges)]

\* A variant of finished that keeps the marker ranges only when
\* enableRegexFolding is on
finished_markersUnderFlag(call, syntaxRanges, text) ==
  returns(call, syntaxRanges,
          (IF call.enableRegexFolding THEN call.highlightRanges ELSE <<>>)
            \o syntaxRanges \o restOfRanges(text, call))

\* The call once the syntax scanner has returned syntaxRanges: it runs the
\* remaining scanners and returns
finished(call, syntaxRanges, text) ==
  returns(call, syntaxRanges,
          call.highlightRanges \o syntaxRanges \o restOfRanges(text, call))

\* What the embedded Python script can print for a file of n lines: a list of
\* ranges with end_line > start_line (line 151), or [] when it fails itself
scriptRanges(n) ==
  {FoldingRange(p[1], p[2], "Region") :
     p \in {q \in (0..(n - 1)) \X (0..(n - 1)) : q[2] > q[1]}}

\* One answer of an external command, as the call remembers it
Outcome(how, answer) == [how |-> how, answer |-> answer]

\* The most ranges one answer of the external parser holds in the model
MaxOracleRanges == 1

\* The answers the script can give for the file content it reads
scriptAnswers(content) ==
  SeqsUpTo(scriptRanges(Len(split(content))), MaxOracleRanges)

\* Lines 11-56, up to the first wait for an external command (or to the
\* return, when there is none)
ProvideFoldingRanges(c, d) ==
  /\ calls[c].pc = "idle"
  /\ LET document == docs[d]
         text == document.text
         languageType == getLanguageType(document)
         syntax == /\ config.enableSyntaxFolding
                   /\ isLanguageSupported(document, config.syntaxFoldingLanguages)
         started ==
           [IdleCall EXCEPT
              !.doc = d, !.text = text,
              !.languageType = IF syntax THEN languageType ELSE NoLanguage,
              !.enableRegexFolding = config.enableRegexFolding,
              !.enableIndentFolding = config.enableIndentFolding,
              !.highlightRanges = getHighlightBlockFoldingRanges(text, markers)]
     IN IF syntax /\ languageType = "python"
        THEN /\ calls' = [calls EXCEPT ![c] =
                  [started EXCEPT !.pc = "pythonVersion",
                                  !.tempFile = tempFileName(now, "py")]]
             /\ tmpFiles' = writeFile(tmpFiles, tempFileName(now, "py"), text)
        ELSE IF syntax /\ languageType \in {"javascript", "typescript"}
        THEN /\ calls' = [calls EXCEPT ![c] =
                  [started EXCEPT !.pc = "node", !.tempFile = tempFileName(now, "js")]]
             /\ tmpFiles' = writeFile(tmpFiles, tempFileName(now, "js"), text)
        ELSE /\ calls' = [calls EXCEPT ![c] =
                  finished(started,
                           IF syntax /\ languageType # NoLanguage
                           THEN parseWithRegex(text, languageType) ELSE <<>>,
                           text)]
             /\ UNCHANGED tmpFiles
  /\ UNCHANGED <<lines, markers, ranges, pending, stage, docs, config, now, returned, uiVars>>

\* A variant of pythonFallback whose catch swallows the failure and returns
\* no syntax range
pythonFallback_empty(call, how) ==
  finished([call EXCEPT !.oracle = Append(@, Outcome(how, <<>>))],
           <<>>, docs[call.doc].text)

\* A variant of pythonFallback that runs the lexical scanner on what the
\* temporary file holds by then instead of on the text the call read
pythonFallback_readsTempFile(call, how) ==
  finished([call EXCEPT !.oracle = Append(@, Outcome(how, <<>>))],
           parseWithRegex(IF call.tempFile \in DOMAIN tmpFiles
                          THEN tmpFiles[call.tempFile] ELSE call.text, "python"),
           docs[call.doc].text)

\* A variant of pythonFallback that asks for the interpreter again instead of
\* falling back to the lexical scanner
pythonFallback_retries(call, how) ==
  [call EXCEPT !.pc = "pythonVersion", !.oracle = <<Outcome(how, <<>>)>>]

\* The catch of parsePythonWithAST: the lexical scanner on the text read at line 101
pythonFallback(call, how) ==
  finished([call EXCEPT !.oracle = Append(@, Outcome(how, <<>>))],
           regexFallback(call.text, "python"), docs[call.doc].text)

\* getPythonCommand: `python --version` answers or fails
PythonVersionReplies(c) ==
  /\ calls[c].pc = "pythonVersion"
  /\ \E ok \in BOOLEAN :
       calls' = [calls EXCEPT ![c] =
                   IF ok THEN [@ EXCEPT !.pc = "pythonScript"]
                   ELSE [@ EXCEPT !.pc = "python3Version"]]
  /\ UNCHANGED <<lines, markers, ranges, pending, stage, docs, config, tmpFiles, now, returned, uiVars>>

\* getPythonCommand: `python3 --version` answers, or fails and 'Python not found' is thrown
Python3VersionReplies(c) ==
  /\ calls[c].pc = "python3Version"
  /\ \E ok \in BOOLEAN :
       calls' = [calls EXCEPT ![c] =
                   IF ok THEN [@ EXCEPT !.pc = "pythonScript"]
                   ELSE pythonFallback(@, "not found")]
  /\ UNCHANGED <<lines, markers, ranges, pending, stage, docs, config, tmpFiles, now, returned, uiVars>>

\* Lines 173-191: the script's process ends. It fails (non-zero exit, killed at
\* the 5000 ms timeout, cannot be started), or it prints the ranges of the file
\* it read, or it prints something JSON.parse rejects.
PythonScriptReplies(c) ==
  /\ calls[c].pc = "pythonScript"
  /\ LET call == calls[c]
         present == call.tempFile \in DOMAIN tmpFiles
         content == IF present THEN tmpFiles[call.tempFile] ELSE ""
     IN \/ /\ calls' = [calls EXCEPT ![c] = pythonFallback(call, "error")]
           /\ UNCHANGED tmpFiles
        \/ /\ calls' = [calls EXCEPT ![c] = pythonFallback(call, "unparseable")]
           /\ tmpFiles' = unlinkFile(tmpFiles, call.tempFile)
        \/ /\ \E answer \in (IF present THEN scriptAnswers(content) ELSE {<<>>}) :
                calls' = [calls EXCEPT ![c] =
                   finished([call EXCEPT !.oracle = Append(@, Outcome("printed", answer)),
                                         !.oracleInput = content],
                            answer, docs[call.doc].text)]
           /\ tmpFiles' = unlinkFile(tmpFiles, call.tempFile)
  /\ UNCHANGED <<lines, markers, ranges, pending, stage, docs, config, now, returned, uiVars>>

\* Lines 204-219: `node -c` ends; with or without an error the lexical scanner
\* runs, and only without one the temporary file is removed
NodeReplies(c) ==
  /\ calls[c].pc = "node"
  /\ \E ok \in BOOLEAN :
       /\ calls' = [calls EXCEPT ![c] =
                      finished([@ EXCEPT !.oracle = Append(@, Outcome(IF ok THEN "ok" ELSE "error", <<>>))],
                               regexFallback(@.text, "javascript"), docs[@.doc].text)]
       /\ tmpFiles' = IF ok THEN unlinkFile(tmpFiles, calls[c].tempFile) ELSE tmpFiles
  /\ UNCHANGED <<lines, markers, ranges, pending, stage, docs, config, now, returned, uiVars>>

-----------------------------------------------------------------------------
(* HighlightBlockManager: findHighlightBlocks, applyHighlight, clearHighlight *)

\* A variant of blockStep in which a start token does not replace a block
\* that is still open
blockStep_keepsFirstStart(ls, i, marker, st) ==
  IF hasMarker(trim(ls[i + 1]), startToken(marker))
  THEN IF st.cur[marker] = NoBlock THEN [st EXCEPT !.cur[marker] = i] ELSE st
  ELSE IF hasMarker(trim(ls[i + 1]), endToken(marker)) /\ st.cur[marker] # NoBlock
  THEN [cur |-> [st.cur EXCEPT ![marker] = NoBlock],
        all |-> [st.all EXCEPT ![marker] =
                   Append(@, [startLine |-> st.cur[marker], endLine |-> i])]]
  ELSE st

\* The body of the forEach over the markers, for line i and one marker.
\* st = [cur |-> currentBlocks, all |-> allBlocks]
blockStep(ls, i, marker, st) ==
  IF hasMarker(trim(ls[i + 1]), startToken(marker))
  THEN [st EXCEPT !.cur[marker] = i]
  ELSE IF hasMarker(trim(ls[i + 1]), endToken(marker)) /\ st.cur[marker] # NoBlock
  THEN [cur |-> [st.cur EXCEPT ![marker] = NoBlock],
        all |-> [st.all EXCEPT ![marker] =
                   Append(@, [startLine |-> st.cur[marker], endLine |-> i])]]
  ELSE st

RECURSIVE blockLoop(_, _, _, _, _)
blockLoop(ls, ms, i, k, st) ==
  IF i >= Len(ls) THEN st
  ELSE IF k > Len(ms) THEN blockLoop(ls, ms, i + 1, 1, st)
  ELSE blockLoop(ls, ms, i, k + 1, blockStep(ls, i, ms[k], st))

\* allBlocks: marker -> the blocks found, in order
findHighlightBlocks(text, ms) ==
  blockLoop(split(text), ms, 0, 1,
            [cur |-> [m \in RangeOf(ms) |-> NoBlock],
             all |-> [m \in RangeOf(ms) |-> <<>>]]).all

\* Lines 674-679: the lines startLine..endLine of every block, in order
RECURSIVE linesOfBlocks(_, _)
linesOfBlocks(blocks, k) ==
  IF k > Len(blocks) THEN <<>>
  ELSE [j \in 1..(blocks[k].endLine - blocks[k].startLine + 1) |->
          blocks[k].startLine + j - 1]
         \o linesOfBlocks(blocks, k + 1)

\* editorDecorations: the markers with a block, each with its decorated lines
editorDecorationsOf(allBlocks) ==
  [m \in {n \in DOMAIN allBlocks : Len(allBlocks[n]) > 0} |-> linesOfBlocks(allBlocks[m], 1)]

\* An editor without a decorated line. decorationTypes holds one type for
\* every key of colorMappings (initializeDecorationTypes runs in the
\* constructor and on every configuration change), so a type is named by
\* its marker
noDecoration(ms) == [m \in RangeOf(ms) |-> <<>>]

\* The decorations and the manager's map before any highlight
NoHighlight == [decorations |-> <<>>, activeDecorations |-> <<>>]

\* clearHighlight(editor). h = [decorations, activeDecorations];
\* setDecorations on an editor the host has disposed of does nothing
clearHighlight(h, editor, ms) ==
  [decorations |->
     [e \in DOMAIN h.decorations |-> IF e = editor THEN noDecoration(ms) ELSE h.decorations[e]],
   activeDecorations |->
     [e \in DOMAIN h.activeDecorations \ {editor} |-> h.activeDecorations[e]]]

\* Lines 666-687 of applyHighlight, editorDecorations being computed
setHighlight(h, editor, ms, editorDecorations) ==
  [decorations |->
     [e \in DOMAIN h.decorations |->
        IF e = editor
        THEN [m \in RangeOf(ms) |->
                IF m \in DOMAIN editorDecorations THEN editorDecorations[m] ELSE <<>>]
        ELSE h.decorations[e]],
   activeDecorations |->
     [e \in DOMAIN h.activeDecorations \cup {editor} |->
        IF e = editor THEN editorDecorations ELSE h.activeDecorations[e]]]

\* The texts the documents of the editors take in the specification of the
\* commands and events
EditorTexts ==
  {join(<<"# a-start", "x", "// a-end">>), join(<<"# a-start", "x">>)}

\* findHighlightBlocks on these texts with the marker a, computed once
findHighlightBlocksOnInputs ==
  [text \in EditorTexts |-> [ms \in {<<"a">>} |-> findHighlightBlocks(text, ms)]]

\* this.findHighlightBlocks(document)
allBlocksOf(text, ms) ==
  IF text \in DOMAIN findHighlightBlocksOnInputs
     /\ ms \in DOMAIN findHighlightBlocksOnInputs[text]
  THEN findHighlightBlocksOnInputs[text][ms]
  ELSE findHighlightBlocks(text, ms)

\* applyHighlight(editor), text being editor.document.getText()
applyHighlight(h, editor, text, ms) ==
  setHighlight(clearHighlight(h, editor, ms), editor, ms,
               editorDecorationsOf(allBlocksOf(text, ms)))

\* The most editors the model tells apart
MaxEditors == 2

EditorIds == 1..MaxEditors

\* No activeTextEditor
NoEditor == 0

\* clearAllHighlights: clearHighlight on every visible editor
RECURSIVE clearFrom(_, _, _, _)
clearFrom(h, e, visible, ms) ==
  IF e > MaxEditors THEN h
  ELSE clearFrom(IF e \in visible THEN clearHighlight(h, e, ms) ELSE h, e + 1, visible, ms)

\* clearAllHighlights that stops after the first visible editor
clearAllHighlights_firstOnly(h, visible, ms) ==
  IF visible = {} THEN h
  ELSE clearHighlight(h, CHOOSE e \in visible : \A f \in visible : e <= f, ms)

clearAllHighlights(h, visible, ms) == clearFrom(h, 1, visible, ms)

\* updateAllHighlights and the forEach of onDidChangeVisibleTextEditors:
\* applyHighlight on every visible editor; eds = editor -> document
RECURSIVE applyFrom(_, _, _, _, _)
applyFrom(h, e, eds, ds, ms) ==
  IF e > MaxEditors THEN h
  ELSE applyFrom(IF e \in DOMAIN eds THEN applyHighlight(h, e, ds[eds[e]].text, ms) ELSE h,
                 e + 1, eds, ds, ms)

updateAllHighlights(h, eds, ds, ms) == applyFrom(h, 1, eds, ds, ms)

\* reinitialize: the old decoration types are disposed of, which removes
\* their decorations from every editor, and new ones are created
reinitialize(h, eds, ds, ms, auto) ==
  IF auto
  THEN updateAllHighlights(clearAllHighlights(h, DOMAIN eds, ms), eds, ds, ms)
  ELSE clearAllHighlights(h, DOMAIN eds, ms)

\* The handler of highlight-block.toggle without the test of line 765
toggle_alwaysApplies(h, editor, text, ms) ==
  applyHighlight(h, editor, text, ms)

\* The handler of highlight-block.toggle for the active editor
toggle(h, editor, text, ms) ==
  IF editor \in DOMAIN h.activeDecorations
  THEN clearHighlight(h, editor, ms)
  ELSE applyHighlight(h, editor, text, ms)

\* The callback of line 805 without its call
timerCallback_skips(h, timer, ds, ms) == h

\* The callback of setTimeout, line 805: applyHighlight(editor) on the text
\* the editor's document holds when it runs. timer = [editor, document]
timerCallback(h, timer, ds, ms) ==
  applyHighlight(h, timer.editor, ds[timer.document].text, ms)

\* No editor is open and nothing is highlighted
NoEditors ==
  /\ editors = <<>>
  /\ activeTextEditor = NoEditor
  /\ decorations = <<>>
  /\ activeDecorations = <<>>
  /\ timers = <<>>
  /\ autoHighlight = TRUE

-----------------------------------------------------------------------------
(* Inputs *)

Configurations ==
  [enableSyntaxFolding : BOOLEAN, enableRegexFolding : BOOLEAN,
   enableIndentFolding : BOOLEAN,
   syntaxFoldingLanguages : {<<>>, <<"python", "javascript", "json">>}]

\* No single scanner under test
NoScan ==
  /\ lines = <<"">>
  /\ ranges = <<>>
  /\ pending = <<>>
  /\ stage = "none"

\* No document open, no call made
NoCalls ==
  /\ docs = [d \in DocIds |-> EmptyDocument]
  /\ config = [enableSyntaxFolding |-> TRUE, enableRegexFolding |-> TRUE,
               enableIndentFolding |-> TRUE, syntaxFoldingLanguages |-> <<>>]
  /\ calls = [c \in CallIds |-> IdleCall]
  /\ tmpFiles = <<>>
  /\ now = 0
  /\ returned = {}

-----------------------------------------------------------------------------
(* Specification Spec: one call of provideFoldingRanges on one document *)

Init ==
  /\ NoScan
  /\ NoEditors
  /\ markers = <<"a">>
  /\ \E document \in OpenDocuments \cup EmptyDocuments \cup RegionDocuments :
       docs = [d \in DocIds |-> IF d = "A" THEN document ELSE EmptyDocument]
  /\ config \in Configurations
  /\ calls = [c \in CallIds |-> IdleCall]
  /\ tmpFiles = <<>>
  /\ now = 0
  /\ returned = {}

Next ==
  \/ ProvideFoldingRanges("c1", "A")
  \/ PythonVersionReplies("c1")
  \/ Python3VersionReplies("c1")
  \/ PythonScriptReplies("c1")
  \/ NodeReplies("c1")

Spec == Init /\ [][Next]_vars

-----------------------------------------------------------------------------
(* Specification SpecMarkers: the marker scanner on one text *)

\* The longest text of start and end tokens of one marker, in lines
MaxPairLines == 7
\* The longest text over two markers, one a prefix or a tail of the other, in lines
MaxPrefixLines == 4


MarkersInit ==
  /\ NoCalls
  /\ NoEditors
  /\ ranges = <<>>
  /\ pending = <<>>
  /\ stage = "input"
  /\ \/ /\ markers = <<"a">>
        /\ lines \in SeqsUpTo(PairLines, MaxPairLines) \ {<<>>}
     \/ /\ markers \in {<<"err", "error">>, <<"error", "err">>, <<"or", "error">>, <<"error", "or">>}
        /\ lines \in SeqsUpTo(PrefixLines, MaxPrefixLines) \ {<<>>}

\* getHighlightBlockFoldingRanges on the text; each range keeps the marker it
\* belongs to
ScanMarkers ==
  /\ stage = "input"
  /\ stage' = "scanned"
  /\ LET scanned == markerScan(join(lines), markers)
     IN ranges' = scanned.out /\ pending' = scanned.cur
  /\ UNCHANGED <<lines, markers, docs, config, calls, tmpFiles, now, returned, uiVars>>

MarkersNext == ScanMarkers

SpecMarkers == MarkersInit /\ [][MarkersNext]_vars

-----------------------------------------------------------------------------
(* Marker scanner: claims *)

\* The line holds the token
carries(line, token) == includes(line, token)

LineNumbers == 0..(Len(lines) - 1)

\* The (startLine, endLine) pairs emitted for marker m, in the order emitted
rangesOfMarker(m) == SpanList(SelectSeq(ranges, LAMBDA r : r.marker = m))

\* Line s carries m-start and no later line carries m-end
unterminatedStart(m, s) ==
  /\ carries(lines[s + 1], startToken(m))
  /\ \A t \in LineNumbers : t > s => ~carries(lines[t + 1], endToken(m))

\* C2 as written: a start of marker m that no later line ends leaves marker m
\* without any range at all.
C2_UnterminatedZeroRanges ==
  stage = "scanned" =>
    \A m \in RangeOf(markers) :
      (\E s \in LineNumbers : unterminatedStart(m, s)) => rangesOfMarker(m) = <<>>

\* C2, amended: a start of marker m on line s that no later line ends yields
\* nothing: every range emitted for m ends before line s (so m has no range at
\* all when no line before s carries m-end), and a block still pending when the
\* input ends is never emitted.
C2_UnterminatedYieldsNothing ==
  stage = "scanned" =>
    \A m \in RangeOf(markers) :
      /\ \A s \in LineNumbers :
           unterminatedStart(m, s) =>
             /\ \A k \in 1..Len(rangesOfMarker(m)) : rangesOfMarker(m)[k][2] < s
             /\ (\A t \in LineNumbers : ~carries(lines[t + 1], endToken(m)))
                  => rangesOfMarker(m) = <<>>
      /\ pending[m] # NoBlock =>
           \A k \in 1..Len(rangesOfMarker(m)) : rangesOfMarker(m)[k][2] < pending[m]

\* A complete pair of a before an unterminated start of a
C2_Witness ==
  /\ stage = "scanned"
  /\ markers = <<"a">>
  /\ Len(lines) = 4
  /\ unterminatedStart("a", 3)
  /\ pending["a"] = 3
  /\ rangesOfMarker("a") = << <<0, 2>> >>

\* The lines that carry a token of marker m, in document order
tokenLines(m) ==
  SelectSeq([k \in 1..Len(lines) |-> k - 1],
            LAMBDA i : carries(lines[i + 1], startToken(m)) \/ carries(lines[i + 1], endToken(m)))

\* The tokens of m alternate start, end, start, end, ..., one token to a line
alternating(m) ==
  LET ts == tokenLines(m) IN
  /\ Len(ts) % 2 = 0
  /\ \A k \in 1..Len(ts) :
       /\ carries(lines[ts[k] + 1], startToken(m)) <=> (k % 2 = 1)
       /\ carries(lines[ts[k] + 1], endToken(m)) <=> (k % 2 = 0)

\* C3: when the tokens of a marker alternate start, end, start, end, ... on
\* distinct lines s1 < e1 < s2 < e2 < ..., the ranges emitted for the marker
\* are exactly (s1,e1), (s2,e2), ... in document order.
C3_PairingInOrder ==
  stage = "scanned" =>
    \A m \in RangeOf(markers) :
      alternating(m) =>
        LET ts == tokenLines(m) IN
        rangesOfMarker(m) = [k \in 1..(Len(ts) \div 2) |-> <<ts[2 * k - 1], ts[2 * k]>>]

\* Tokens of a at lines 0, 2, 4, 6
C3_Witness ==
  /\ stage = "scanned"
  /\ markers = <<"a">>
  /\ alternating("a")
  /\ tokenLines("a") = <<0, 2, 4, 6>>
  /\ rangesOfMarker("a") = << <<0, 2>>, <<4, 6>> >>

\* m is a proper prefix of n
properPrefix(m, n) == Len(m) < Len(n) /\ SubSeq(n, 1, Len(m)) = m

\* C4: with two markers configured, one a prefix of the other (err, error), a
\* text that holds tokens of the longer only gives the shorter no range and no
\* pending block.
C4_PrefixNeverCrossTriggers ==
  stage = "scanned" =>
    \A m \in RangeOf(markers), n \in RangeOf(markers) :
      (/\ properPrefix(m, n)
       /\ \A i \in LineNumbers : ~carries(lines[i + 1], startToken(m))
                                 /\ ~carries(lines[i + 1], endToken(m)))
      => rangesOfMarker(m) = <<>> /\ pending[m] = NoBlock

\* error-start ... error-end alone, scanned with err and error configured
C4_Witness ==
  /\ stage = "scanned"
  /\ markers = <<"err", "error">>
  /\ lines = <<"# error-start", "", "error-end">>
  /\ rangesOfMarker("error") = << <<0, 2>> >>
  /\ rangesOfMarker("err") = <<>>


-----------------------------------------------------------------------------
(* provideFoldingRanges: claims *)

\* The calls that have returned
Returned == {c \in CallIds : calls[c].pc = "done"}

\* The lines of the text a call scanned
linesOf(c) == split(calls[c].text)

\* C1: every range provideFoldingRanges returns, whichever scanner produced
\* it and whatever the flags, ends on a later line than it starts.
C1_RangesSpanLines ==
  \A c \in Returned :
    \A k \in 1..Len(calls[c].result.ranges) :
      calls[c].result.ranges[k].endLine > calls[c].result.ranges[k].startLine

\* A Python call with every scanner on, answered by the external parser,
\* returns marker, syntax, run and indentation ranges
C1_Witness ==
  /\ calls["c1"].pc = "done"
  /\ calls["c1"].languageType = "python"
  /\ calls["c1"].enableRegexFolding /\ calls["c1"].enableIndentFolding
  /\ calls["c1"].highlightRanges # <<>>
  /\ calls["c1"].syntaxRanges # <<>>
  /\ Len(calls["c1"].result.ranges) > Len(calls["c1"].highlightRanges) + Len(calls["c1"].syntaxRanges)

\* Lines s < e form a complete pair of marker m: s carries m-start, e carries
\* m-end and not m-start, and no line strictly between carries either token
completePair(ls, m, s, e) ==
  /\ s < e
  /\ carries(ls[s + 1], startToken(m))
  /\ carries(ls[e + 1], endToken(m)) /\ ~carries(ls[e + 1], startToken(m))
  /\ \A i \in (s + 1)..(e - 1) :
       ~carries(ls[i + 1], startToken(m)) /\ ~carries(ls[i + 1], endToken(m))

completePairs(ls, m) ==
  {p \in (0..(Len(ls) - 1)) \X (0..(Len(ls) - 1)) : completePair(ls, m, p[1], p[2])}

\* C5: whatever the three flags and the language, the result of
\* provideFoldingRanges holds the range of every complete marker pair of the
\* document.
C5_MarkersAlwaysScanned ==
  \A c \in Returned :
    \A m \in RangeOf(markers) :
      \A p \in completePairs(linesOf(c), m) :
        /\ ~calls[c].result.null
        /\ p \in Spans(calls[c].result.ranges)

\* A plain-text document with a complete pair, every flag off
C5_Witness ==
  /\ calls["c1"].pc = "done"
  /\ ~config.enableSyntaxFolding /\ ~config.enableRegexFolding /\ ~config.enableIndentFolding
  /\ docs["A"].languageId = "plaintext"
  /\ <<0, 2>> \in completePairs(linesOf("c1"), "a")
  /\ SpanList(calls["c1"].result.ranges) = << <<0, 2>> >>

oracleFailed(c) ==
  /\ calls[c].oracle # <<>>
  /\ calls[c].oracle[Len(calls[c].oracle)].how \in {"error", "not found", "unparseable"}

\* C7: a failure of the external parser is never surfaced: the call returns,
\* its result keeps the marker ranges, and its syntax ranges are those of the
\* lexical fallback on the text.
C7_OracleFailureFallsBack ==
  \A c \in Returned :
    oracleFailed(c) =>
      /\ calls[c].result.settled
      /\ calls[c].syntaxRanges = parseWithRegex(calls[c].text, calls[c].languageType)
      /\ calls[c].result.null <=> calls[c].highlightRanges \o calls[c].syntaxRanges
                                     \o restOfRanges(calls[c].text, calls[c]) = <<>>
      /\ calls[c].result.ranges =
           calls[c].highlightRanges \o calls[c].syntaxRanges \o restOfRanges(calls[c].text, calls[c])
      /\ \A m \in RangeOf(markers) :
           completePairs(linesOf(c), m) \subseteq Spans(calls[c].result.ranges)

\* The Python script timed out; the result holds a marker range and the
\* range of the lexical scanner
C7_Witness ==
  /\ calls["c1"].pc = "done"
  /\ calls["c1"].languageType = "python"
  /\ calls["c1"].oracle = <<Outcome("error", <<>>)>>
  /\ calls["c1"].highlightRanges # <<>>
  /\ calls["c1"].syntaxRanges # <<>>
  /\ ~calls["c1"].result.null


-----------------------------------------------------------------------------
(* provideFoldingRanges: concurrent calls, temporary files, termination *)

\* The calls waiting for an external command
InFlight == {c \in CallIds : calls[c].pc \in {"pythonVersion", "python3Version", "pythonScript", "node"}}

\* The external parser printed an answer to call c
printedTo(c) == \E k \in 1..Len(calls[c].oracle) : calls[c].oracle[k].how = "printed"

\* C14: calls for two different documents in flight at the same time share
\* nothing: what a call returns is computed from its own document only, so an
\* answer of the external parser that a call uses was computed from the text
\* that call read.
C14_ConcurrentScansIsolated ==
  \A c \in Returned : printedTo(c) => calls[c].oracleInput = calls[c].text

\* Two calls for two different documents wait for the external parser at the
\* same time
C14_Witness ==
  /\ InFlight = {"c1", "c2"}
  /\ calls["c1"].doc # calls["c2"].doc
  /\ calls["c1"].text # calls["c2"].text
  /\ calls["c1"].pc = "pythonScript" /\ calls["c2"].pc = "pythonScript"

\* C15: every temporary file a call created for the external command is
\* removed by the time the call settles, whatever the command did.
C15_NoTempFileLeft ==
  calls["c1"].pc = "done" => DOMAIN tmpFiles = {}

\* The script printed its answer and the call settled: the file is removed
C15_Witness ==
  /\ calls["c1"].pc = "done"
  /\ calls["c1"].tempFile # NoFile
  /\ printedTo("c1")
  /\ DOMAIN tmpFiles = {}

\* Specification SpecLive: one call of provideFoldingRanges; every external
\* command answers or is cut off by the timeout of execCommand
SpecLive ==
  /\ Init
  /\ [][Next]_vars
  /\ WF_vars(PythonVersionReplies("c1"))
  /\ WF_vars(Python3VersionReplies("c1"))
  /\ WF_vars(PythonScriptReplies("c1"))
  /\ WF_vars(NodeReplies("c1"))

\* C16: every call of provideFoldingRanges that has started eventually
\* settles with a result, whatever the external commands do.
C16_CallSettles ==
  (calls["c1"].pc # "idle") ~> (calls["c1"].pc = "done" /\ calls["c1"].result.settled)

\* Neither python nor python3 is found and the call has settled
C16_Witness ==
  /\ calls["c1"].pc = "done"
  /\ calls["c1"].result.settled
  /\ calls["c1"].oracle = <<Outcome("not found", <<>>)>>

-----------------------------------------------------------------------------
(* Specification SpecIndent: the indentation scanner on one text *)

IndentLines ==
  {"def f():", "if x:", "    x = 1", "    y = 2", "    s = \"\"\"a", "    b\"\"\"", "# c", ""}

\* The longest text of the indentation specification, in lines
MaxIndentLines == 4

\* Lines that are no structural header, at two indentations
PlainIndentLines == {"a", "  b", "c", ""}

\* A header, the two lines of a multi-line string and a body line, for texts
\* with a docstring and a second string
DocstringLines == {"def f():", "    s = \"\"\"a", "    b\"\"\"", "    x = 1"}
MaxDocstringLines == 5

IndentInit ==
  /\ NoCalls
  /\ NoEditors
  /\ markers = <<>>
  /\ ranges = <<>>
  /\ pending = <<>>
  /\ stage = "input"
  /\ lines \in (SeqsUpTo(IndentLines, MaxIndentLines)
                  \cup SeqsUpTo(PlainIndentLines, MaxIndentLines)
                  \cup SeqsUpTo(DocstringLines, MaxDocstringLines)) \ {<<>>}

\* getIndentBasedFolding on the lines
ScanIndent ==
  /\ stage = "input"
  /\ stage' = "indent"
  /\ ranges' = getIndentBasedFolding(lines)
  /\ UNCHANGED <<lines, markers, pending, docs, config, calls, tmpFiles, now, returned, uiVars>>

IndentNext == ScanIndent

SpecIndent == IndentInit /\ [][IndentNext]_vars

\* Line 0 is a structural header and every line after it, at least one, is a
\* body line: not blank, not a comment, all at one indentation deeper than the
\* header's
headerAndBody ==
  /\ Len(lines) >= 2
  /\ isStructureDefinition(lines[1])
  /\ \A k \in 2..Len(lines) :
       /\ ~isBlank(lines[k])
       /\ ~isHashComment(lines[k])
       /\ searchNonSpace(lines[k]) = searchNonSpace(lines[2])
       /\ searchNonSpace(lines[k]) > searchNonSpace(lines[1])

\* C9: a structural header followed to the end of the input by n >= 1 body
\* lines, none blank or a comment and all at one deeper indentation, yields
\* exactly one range, from the header line to the last body line.
C9_HeaderAndBodyFold ==
  (stage = "indent" /\ headerAndBody) => SpanList(ranges) = << <<0, Len(lines) - 1>> >>

\* No line of the text holds a triple-quote token
noTripleQuote ==
  \A k \in 1..Len(lines) : ~includes(lines[k], TripleDouble) /\ ~includes(lines[k], TripleSingle)

\* C9 on the texts without a triple-quoted string
C9_PlainBodyFold ==
  (stage = "indent" /\ headerAndBody /\ noTripleQuote)
    => SpanList(ranges) = << <<0, Len(lines) - 1>> >>

\* def f(): / x = 1 / y = 2 folds as (0,2)
C9_Witness ==
  /\ stage = "indent"
  /\ lines = <<"def f():", "    x = 1", "    y = 2">>
  /\ headerAndBody
  /\ SpanList(ranges) = << <<0, 2>> >>


-----------------------------------------------------------------------------
(* Specification SpecDelim: the delimiter scanners on one text *)

DelimLines == {"{", "}", "  a", "}, {", "[{", "}]", "if (x) {", "} else {"}

\* The longest text of the delimiter specification, in lines
MaxDelimLines == 4

DelimInit ==
  /\ NoCalls
  /\ NoEditors
  /\ markers = <<>>
  /\ ranges = <<>>
  /\ pending = <<>>
  /\ stage = "input"
  /\ lines \in SeqsUpTo(DelimLines, MaxDelimLines) \ {<<>>}

\* parseJsonWithRegex on the lines
ScanJson ==
  /\ stage = "input"
  /\ stage' = "json"
  /\ ranges' = parseJsonWithRegex(lines)
  /\ UNCHANGED <<lines, markers, pending, docs, config, calls, tmpFiles, now, returned, uiVars>>

\* findBlocksWithBraces on the lines, with the JavaScript headers
ScanBraces ==
  /\ stage = "input"
  /\ stage' = "braces"
  /\ ranges' = findBlocksWithBraces(lines, javaScriptPatterns)
  /\ UNCHANGED <<lines, markers, pending, docs, config, calls, tmpFiles, now, returned, uiVars>>

DelimNext == ScanJson \/ ScanBraces

SpecDelim == DelimInit /\ [][DelimNext]_vars

\* The pairs <<open line, close line>> of the delimiters open/close of a text,
\* matched character by character, innermost first. k is the character of
\* line i read next, stack the lines of the opens not yet closed
RECURSIVE matchFrom(_, _, _, _, _, _, _)
matchFrom(ls, open, close, i, k, stack, out) ==
  IF i >= Len(ls) THEN out
  ELSE IF k > Len(ls[i + 1]) THEN matchFrom(ls, open, close, i + 1, 1, stack, out)
  ELSE IF Ch(ls[i + 1], k) = open
       THEN matchFrom(ls, open, close, i, k + 1, Append(stack, i), out)
  ELSE IF Ch(ls[i + 1], k) = close /\ Len(stack) > 0
       THEN matchFrom(ls, open, close, i, k + 1, SubSeq(stack, 1, Len(stack) - 1),
                      Append(out, <<stack[Len(stack)], i>>))
  ELSE matchFrom(ls, open, close, i, k + 1, stack, out)

matchedPairs(ls, open, close) == matchFrom(ls, open, close, 0, 1, <<>>, <<>>)

\* How many elements of a sequence equal x
occurrences(seq, x) == Cardinality({k \in 1..Len(seq) : seq[k] = x})

\* The matched pairs the scanner that ran is to fold: of braces and brackets
\* for the JSON scanner, of the braces opened on a header line for the brace
\* scanner
pairsToFold ==
  IF stage = "json"
  THEN matchedPairs(lines, "{", "}") \o matchedPairs(lines, "[", "]")
  ELSE SelectSeq(matchedPairs(lines, "{", "}"),
                 LAMBDA p : matchedPattern(javaScriptPatterns, lines[p[1] + 1]))

\* C10: an open delimiter on line i whose matching close delimiter is on line
\* j >= i + 2 yields exactly one range (i, j).
C10_BlockWithContent ==
  stage \in {"json", "braces"} =>
    \A k \in 1..Len(pairsToFold) :
      LET p == pairsToFold[k] IN
      p[2] >= p[1] + 2 => occurrences(SpanList(ranges), p) = occurrences(pairsToFold, p)

\* Every delimiter line of the text holds one delimiter
oneDelimiterPerLine ==
  \A k \in 1..Len(lines) :
    countMatches(lines[k], "{") + countMatches(lines[k], "}")
      + countMatches(lines[k], "[") + countMatches(lines[k], "]") <= 1

\* C10 on the texts whose lines hold one delimiter at most
C10_OneDelimiterPerLine ==
  (stage \in {"json", "braces"} /\ oneDelimiterPerLine) =>
    \A k \in 1..Len(pairsToFold) :
      LET p == pairsToFold[k] IN
      p[2] >= p[1] + 2 => occurrences(SpanList(ranges), p) = occurrences(pairsToFold, p)

\* The lines {, a, } give the JSON scanner exactly the range (0,2)
C10_Witness ==
  /\ stage = "json"
  /\ lines = <<"{", "  a", "}">>
  /\ pairsToFold = << <<0, 2>> >>
  /\ SpanList(ranges) = << <<0, 2>> >>


\* C11: an open delimiter on line i whose matching close delimiter is on the
\* adjacent line i + 1, with no content between, yields no range; the lines
\* {, } yield none.
C11_AdjacentYieldsNothing ==
  stage \in {"json", "braces"} =>
    \A k \in 1..Len(pairsToFold) :
      pairsToFold[k][2] = pairsToFold[k][1] + 1 => pairsToFold[k] \notin Spans(ranges)

\* The lines {, } scanned by the JSON scanner, which emits (0,1)
C11_Witness ==
  /\ stage = "json"
  /\ lines = <<"{", "}">>
  /\ pairsToFold = << <<0, 1>> >>
  /\ SpanList(ranges) = << <<0, 1>> >>

\* The header lines if (x) {, } scanned by the brace scanner, which emits (0,1)
C11_BraceWitness ==
  /\ stage = "braces"
  /\ lines = <<"if (x) {", "}">>
  /\ pairsToFold = << <<0, 1>> >>
  /\ SpanList(ranges) = << <<0, 1>> >>

\* The close delimiters of the scanner that ran
closers == IF stage = "json" THEN {"}", "]"} ELSE {"}"}

-----------------------------------------------------------------------------
(* Specification SpecRegion: the region scanner on one text *)

RegionLines ==
  {"// #region", "x", "// #endregion", "  #region a", "#endregion", "#region b // #endregion"}

\* The longest text of the region specification, in lines
MaxRegionLines == 5

RegionInit ==
  /\ NoCalls
  /\ NoEditors
  /\ markers = <<>>
  /\ ranges = <<>>
  /\ pending = <<>>
  /\ stage = "input"
  /\ lines \in SeqsUpTo(RegionLines, MaxRegionLines) \ {<<>>}

\* getRegionBasedFolding on the lines
ScanRegions ==
  /\ stage = "input"
  /\ stage' = "regions"
  /\ ranges' = getRegionBasedFolding(lines)
  /\ UNCHANGED <<lines, markers, pending, docs, config, calls, tmpFiles, now, returned, uiVars>>

RegionNext == ScanRegions

SpecRegion == RegionInit /\ [][RegionNext]_vars

\* Line i is a region-begin line: it holds #region
regionBegin(i) == includes(lines[i + 1], "#region")

\* Line i is a region-end line: it holds #endregion and begins no region
regionEnd(i) == includes(lines[i + 1], "#endregion") /\ ~regionBegin(i)

\* Begin lines minus end lines among the lines from..upTo
openBalance(from, upTo) ==
  Cardinality({i \in from..upTo : regionBegin(i)}) - Cardinality({i \in from..upTo : regionEnd(i)})

\* The begin line s is the most recent begin still open when the end line e is
\* read: every begin between them is closed by an end between them
lifoPair(s, e) ==
  /\ s < e
  /\ regionBegin(s)
  /\ regionEnd(e)
  /\ openBalance(s + 1, e - 1) = 0
  /\ \A t \in (s + 1)..(e - 1) : openBalance(t, e - 1) <= 0

\* C13: each region-end line is paired with the most recent still-open
\* region-begin line and yields exactly one range (beginLine, endLine), also
\* when the two lines are adjacent; a region-end with no open begin and a
\* begin never closed yield nothing; the ranges come in the order of their
\* end lines.
C13_RegionsPairLifo ==
  stage = "regions" =>
    /\ Spans(ranges) = {p \in LineNumbers \X LineNumbers : lifoPair(p[1], p[2])}
    /\ \A j \in 1..Len(ranges), k \in 1..Len(ranges) :
         j < k => ranges[j].endLine < ranges[k].endLine
    /\ lines = <<"// #region", "x", "// #endregion">> => SpanList(ranges) = << <<0, 2>> >>

\* A nested region whose begin and end are adjacent, inside // #region ...
\* // #endregion, and an end with no open begin after them
C13_Witness ==
  /\ stage = "regions"
  /\ lines = <<"// #region", "  #region a", "#endregion", "// #endregion", "#endregion">>
  /\ SpanList(ranges) = << <<1, 2>>, <<0, 3>> >>

-----------------------------------------------------------------------------
(* Specification SpecHighlight: applyHighlight on one editor and one text *)

\* The lines of the README's example of a marker without -start
BareLines == {"# note", "important_note = 1", "# note-end", "# note-start"}

\* The longest text over these lines, in lines
MaxBareLines == 3

HighlightInit ==
  /\ NoCalls
  /\ ranges = <<>>
  /\ pending = <<>>
  /\ stage = "input"
  /\ \/ /\ markers = <<"a">>
        /\ lines \in SeqsUpTo(PairLines, MaxPairLines) \ {<<>>}
     \/ /\ markers \in {<<"err", "error">>, <<"error", "err">>}
        /\ lines \in SeqsUpTo(PrefixLines, MaxPrefixLines) \ {<<>>}
     \/ /\ markers = <<"note">>
        /\ lines \in SeqsUpTo(BareLines, MaxBareLines) \ {<<>>}
  /\ editors = [e \in {1} |-> "A"]
  /\ activeTextEditor = 1
  /\ decorations = [e \in {1} |-> noDecoration(markers)]
  /\ activeDecorations = <<>>
  /\ timers = <<>>
  /\ autoHighlight = FALSE

\* applyHighlight(editor) on the editor whose document holds the lines
HighlightLines ==
  /\ stage = "input"
  /\ stage' = "highlighted"
  /\ decorations' =
       applyHighlight([decorations |-> decorations, activeDecorations |-> activeDecorations],
                      1, join(lines), markers).decorations
  /\ activeDecorations' =
       applyHighlight([decorations |-> decorations, activeDecorations |-> activeDecorations],
                      1, join(lines), markers).activeDecorations
  /\ UNCHANGED <<lines, markers, ranges, pending, docs, config, calls, tmpFiles, now, returned,
                 editors, activeTextEditor, timers, autoHighlight>>

HighlightNext == HighlightLines

SpecHighlight == HighlightInit /\ [][HighlightNext]_vars

\* The lines of editor e decorated for marker m
decorated(e, m) == RangeOf(decorations[e][m])

\* The lines of the complete pairs of marker m in the lines ls
linesOfPairs(ls, m) ==
  UNION {p[1]..p[2] : p \in completePairs(ls, m)}

\* C17: after applyHighlight the decorated lines of marker m are exactly the
\* lines s..e of the complete pairs of m, s carrying m-start and a later line
\* e carrying m-end with no token of m between: a lone start, an unpaired end
\* and a start overwritten by a later start decorate no line.
C17_OnlyCompletePairs ==
  stage = "highlighted" =>
    \A m \in RangeOf(markers) : decorated(1, m) = linesOfPairs(lines, m)

\* An overwritten start on line 0, a pair on lines 1-3 and an unpaired end
C17_Witness ==
  /\ stage = "highlighted"
  /\ markers = <<"a">>
  /\ lines = <<"# a-start", "# a-start", "x", "// a-end", "// a-end">>
  /\ decorations[1]["a"] = <<1, 2, 3>>
  /\ 1 \in DOMAIN activeDecorations

-----------------------------------------------------------------------------
(* Specification SpecEditor: the commands and the event handlers of activate *)

\* The most callbacks of setTimeout waiting at one time
MaxTimers == 1

\* The decorations and the manager's map, as the handlers take them
shown == [decorations |-> decorations, activeDecorations |-> activeDecorations]

\* The editor and the manager take the state h a handler left
Show(h) ==
  /\ decorations' = h.decorations
  /\ activeDecorations' = h.activeDecorations

\* The host shows editor e: it has no decoration yet
withEditor(h, e, ms) ==
  [h EXCEPT !.decorations =
     [f \in DOMAIN h.decorations \cup {e} |->
        IF f = e THEN noDecoration(ms) ELSE h.decorations[f]]]

\* The host disposes of editor e, and of what it showed
withoutEditor(h, e) ==
  [h EXCEPT !.decorations = [f \in DOMAIN h.decorations \ {e} |-> h.decorations[f]]]

\* The editors the manager's map or a callback still refers to
referenced ==
  DOMAIN editors \cup DOMAIN activeDecorations \cup {timers[k].editor : k \in 1..Len(timers)}

\* A TextEditor object not seen before
newEditor ==
  CHOOSE e \in EditorIds \ referenced : \A f \in EditorIds \ referenced : e <= f

\* Lines 856-863: the state when activate returns, with no editor open or
\* with one, which is highlighted when autoHighlight is on
EditorInit ==
  /\ lines = <<"">>
  /\ ranges = <<>>
  /\ pending = <<>>
  /\ stage = "event"
  /\ markers = <<"a">>
  /\ docs \in [DocIds -> {[languageId |-> "plaintext", fileName |-> "a.txt", text |-> t] :
                            t \in EditorTexts}]
  /\ config = [enableSyntaxFolding |-> TRUE, enableRegexFolding |-> TRUE,
               enableIndentFolding |-> TRUE, syntaxFoldingLanguages |-> <<>>]
  /\ calls = [c \in CallIds |-> IdleCall]
  /\ tmpFiles = <<>>
  /\ now = 0
  /\ returned = {}
  /\ timers = <<>>
  /\ autoHighlight \in BOOLEAN
  /\ \/ /\ editors = <<>>
        /\ activeTextEditor = NoEditor
        /\ decorations = <<>>
        /\ activeDecorations = <<>>
     \/ /\ editors = [e \in {1} |-> "A"]
        /\ activeTextEditor = 1
        /\ \E h \in {IF autoHighlight
                     THEN applyHighlight(withEditor(NoHighlight, 1, markers), 1,
                                         docs["A"].text, markers)
                     ELSE withEditor(NoHighlight, 1, markers)} :
             /\ decorations = h.decorations
             /\ activeDecorations = h.activeDecorations

\* highlight-block.toggle
ToggleCommand ==
  /\ stage' = IF stage \in {"toggle", "toggle toggle"} THEN "toggle toggle" ELSE "toggle"
  /\ IF activeTextEditor = NoEditor
     THEN UNCHANGED <<decorations, activeDecorations>>
     ELSE Show(toggle(shown, activeTextEditor, docs[editors[activeTextEditor]].text, markers))
  /\ UNCHANGED <<lines, markers, ranges, pending, docs, config, calls, tmpFiles, now, returned,
                 editors, activeTextEditor, timers, autoHighlight>>

\* highlight-block.clear
ClearCommand ==
  /\ stage' = "clear"
  /\ Show(clearAllHighlights(shown, DOMAIN editors, markers))
  /\ UNCHANGED <<lines, markers, ranges, pending, docs, config, calls, tmpFiles, now, returned,
                 editors, activeTextEditor, timers, autoHighlight>>

\* The user opens document d in a new editor, which becomes the active one;
\* onDidChangeVisibleTextEditors and onDidChangeActiveTextEditor run
OpenEditor(d) ==
  /\ EditorIds \ referenced # {}
  /\ \A e \in DOMAIN editors : editors[e] # d
  /\ stage' = "event"
  /\ editors' = [e \in DOMAIN editors \cup {newEditor} |->
                   IF e = newEditor THEN d ELSE editors[e]]
  /\ activeTextEditor' = newEditor
  /\ Show(IF autoHighlight
          THEN applyHighlight(
                 updateAllHighlights(withEditor(shown, newEditor, markers), editors', docs, markers),
                 newEditor, docs[d].text, markers)
          ELSE withEditor(shown, newEditor, markers))
  /\ UNCHANGED <<lines, markers, ranges, pending, docs, config, calls, tmpFiles, now, returned,
                 timers, autoHighlight>>

\* The user closes or covers editor e: the host disposes of it and, when it
\* was the active one, makes another editor or none the active one;
\* onDidChangeVisibleTextEditors and onDidChangeActiveTextEditor run
CloseEditor(e) ==
  /\ e \in DOMAIN editors
  /\ stage' = "event"
  /\ editors' = [f \in DOMAIN editors \ {e} |-> editors[f]]
  /\ IF activeTextEditor = e
     THEN activeTextEditor' \in (DOMAIN editors \ {e}) \cup {NoEditor}
     ELSE UNCHANGED activeTextEditor
  /\ Show(IF autoHighlight
          THEN updateAllHighlights(withoutEditor(shown, e), editors', docs, markers)
          ELSE withoutEditor(shown, e))
  /\ UNCHANGED <<lines, markers, ranges, pending, docs, config, calls, tmpFiles, now, returned,
                 timers, autoHighlight>>

\* The user moves to the visible editor e; onDidChangeActiveTextEditor runs
FocusEditor(e) ==
  /\ e \in DOMAIN editors
  /\ e # activeTextEditor
  /\ stage' = "event"
  /\ activeTextEditor' = e
  /\ Show(IF autoHighlight
          THEN applyHighlight(shown, e, docs[editors[e]].text, markers)
          ELSE shown)
  /\ UNCHANGED <<lines, markers, ranges, pending, docs, config, calls, tmpFiles, now, returned,
                 editors, timers, autoHighlight>>

\* The text of document d changes to t; onDidChangeTextDocument runs and, for
\* the document of the active editor, sets a timer of 200 ms
ChangeText(d, t) ==
  /\ t # docs[d].text
  /\ stage' = "event"
  /\ docs' = [docs EXCEPT ![d].text = t]
  /\ IF /\ activeTextEditor # NoEditor
        /\ editors[activeTextEditor] = d
        /\ autoHighlight
     THEN /\ Len(timers) < MaxTimers
          /\ timers' = Append(timers, [editor |-> activeTextEditor, document |-> d])
     ELSE UNCHANGED timers
  /\ UNCHANGED <<lines, markers, ranges, pending, config, calls, tmpFiles, now, returned,
                 editors, activeTextEditor, decorations, activeDecorations, autoHighlight>>

\* The callback of the oldest timer runs: applyHighlight(editor) on the text
\* the document holds now
TimerFires ==
  /\ timers # <<>>
  /\ stage' = "timer"
  /\ timers' = Tail(timers)
  /\ Show(timerCallback(shown, timers[1], docs, markers))
  /\ UNCHANGED <<lines, markers, ranges, pending, docs, config, calls, tmpFiles, now, returned,
                 editors, activeTextEditor, autoHighlight>>

\* A setting of highlightBlock changes; onDidChangeConfiguration runs
ChangeConfiguration(auto) ==
  /\ stage' = "event"
  /\ autoHighlight' = auto
  /\ Show(reinitialize(shown, editors, docs, markers, auto))
  /\ UNCHANGED <<lines, markers, ranges, pending, docs, config, calls, tmpFiles, now, returned,
                 editors, activeTextEditor, timers>>

EditorNext ==
  \/ ToggleCommand
  \/ ClearCommand
  \/ \E d \in DocIds : OpenEditor(d)
  \/ \E e \in EditorIds : CloseEditor(e) \/ FocusEditor(e)
  \/ \E d \in DocIds, t \in EditorTexts : ChangeText(d, t)
  \/ TimerFires
  \/ \E auto \in BOOLEAN : ChangeConfiguration(auto)

SpecEditor == EditorInit /\ [][EditorNext]_vars

-----------------------------------------------------------------------------
(* Specification SpecTyping: the user types in, moves between, toggles,
   clears and closes two editors side by side, and changes the settings;
   the host runs the callback of every timer that was set *)

\* The state after activate with document A in the active editor and
\* autoHighlight on, and after document B was opened beside it
TypingInit ==
  /\ lines = <<"">>
  /\ ranges = <<>>
  /\ pending = <<>>
  /\ stage = "event"
  /\ markers = <<"a">>
  /\ docs \in [DocIds -> {[languageId |-> "plaintext", fileName |-> "a.txt", text |-> t] :
                            t \in EditorTexts}]
  /\ config = [enableSyntaxFolding |-> TRUE, enableRegexFolding |-> TRUE,
               enableIndentFolding |-> TRUE, syntaxFoldingLanguages |-> <<>>]
  /\ calls = [c \in CallIds |-> IdleCall]
  /\ tmpFiles = <<>>
  /\ now = 0
  /\ returned = {}
  /\ timers = <<>>
  /\ autoHighlight = TRUE
  /\ editors = [e \in {1, 2} |-> IF e = 1 THEN "A" ELSE "B"]
  /\ activeTextEditor = 2
  /\ \E h \in {updateAllHighlights(withEditor(withEditor(NoHighlight, 1, markers), 2, markers),
                                    editors, docs, markers)} :
       /\ decorations = h.decorations
       /\ activeDecorations = h.activeDecorations

TypingNext ==
  \/ ToggleCommand
  \/ ClearCommand
  \/ \E e \in EditorIds : CloseEditor(e) \/ FocusEditor(e)
  \/ \E d \in DocIds, t \in EditorTexts : ChangeText(d, t)
  \/ TimerFires
  \/ \E auto \in BOOLEAN : ChangeConfiguration(auto)

SpecTyping == TypingInit /\ [][TypingNext]_vars /\ WF_vars(TimerFires)

-----------------------------------------------------------------------------
(* Specification SpecScans: calls of provideFoldingRanges on two Python
   documents, one after another and interleaved *)

\* The call returns to its caller. The scan may be remembered, once, to be
\* compared with the scans that return later
Return(c) ==
  /\ calls[c].pc = "done"
  /\ calls' = [calls EXCEPT ![c] = IdleCall]
  /\ \/ UNCHANGED returned
     \/ /\ returned = {}
        /\ returned' = {[document |-> [docs[calls[c].doc] EXCEPT !.text = calls[c].text],
                         oracle |-> calls[c].oracle,
                         result |-> calls[c].result]}
  /\ UNCHANGED <<lines, markers, ranges, pending, stage, docs, config, tmpFiles, now, uiVars>>

\* The last value of Date.now() in the model
MaxNow == 1

\* A millisecond passes
Tick ==
  /\ now < MaxNow
  /\ now' = now + 1
  /\ UNCHANGED <<lines, markers, ranges, pending, stage, docs, config, calls, tmpFiles, returned, uiVars>>

ScansInit ==
  /\ NoScan
  /\ NoEditors
  /\ markers = <<"a">>
  /\ \E a \in ScanDocuments, b \in ScanDocuments :
       /\ a.text = join(<<"def f():", "    x = 1">>)
       /\ docs = [d \in DocIds |-> IF d = "A" THEN a ELSE b]
  /\ config = [enableSyntaxFolding |-> TRUE, enableRegexFolding |-> TRUE,
               enableIndentFolding |-> TRUE,
               syntaxFoldingLanguages |-> <<"python", "javascript", "json">>]
  /\ calls = [c \in CallIds |-> IdleCall]
  /\ tmpFiles = <<>>
  /\ now = 0
  /\ returned = {}

\* A new call takes the first free slot
freeSlot(c) == calls[c].pc = "idle" /\ (c = "c2" => calls["c1"].pc # "idle")

ScansNext ==
  \/ \E c \in CallIds, d \in DocIds : freeSlot(c) /\ ProvideFoldingRanges(c, d)
  \/ \E c \in CallIds :
       \/ PythonVersionReplies(c)
       \/ Python3VersionReplies(c)
       \/ PythonScriptReplies(c)
       \/ Return(c)
  \/ Tick

SpecScans == ScansInit /\ [][ScansNext]_vars

\* The document a call scanned, with the text it read
scannedBy(c) == [docs[calls[c].doc] EXCEPT !.text = calls[c].text]

\* C8: scanning is deterministic and stateless: two scans of the same text
\* under the same configuration, given the same answers by the external
\* parser, return the same list, whatever was scanned before or in between.
C8_ScansAgree ==
  /\ \A c \in Returned : \A r \in returned :
       (scannedBy(c) = r.document /\ calls[c].oracle = r.oracle) => calls[c].result = r.result
  /\ \A c \in Returned : \A b \in Returned :
       (scannedBy(c) = scannedBy(b) /\ calls[c].oracle = calls[b].oracle)
         => calls[c].result = calls[b].result

\* A scan of document A returned and was remembered, a scan of the other
\* document ran, and a second scan of A, given the same answers, is back
C8_Witness ==
  /\ returned # {}
  /\ calls["c1"].pc = "done" /\ calls["c2"].pc = "done"
  /\ calls["c1"].doc = "A" /\ calls["c2"].doc = "B"
  /\ docs["A"] # docs["B"]
  /\ \E r \in returned :
       /\ r.document = scannedBy("c1")
       /\ r.oracle = calls["c1"].oracle
       /\ r.oracle # <<>>
       /\ r.result = calls["c1"].result
       /\ ~r.result.null


-----------------------------------------------------------------------------
(* The commands and the event handlers, under SpecEditor *)

\* The text in the document of editor e
textOf(e) == docs[editors[e]].text

\* The active editor after two toggle commands in a row from this state
toggledTwice ==
  toggle(toggle(shown, activeTextEditor, textOf(activeTextEditor), markers),
         activeTextEditor, textOf(activeTextEditor), markers)

\* C18: the toggle command switches the active editor: with an entry in
\* activeDecorations it clears the editor's decorations and removes the
\* entry, without one it decorates the complete pairs of the text and
\* records the entry; two toggles in a row leave the editor with an entry
\* exactly when it had one, and an editor that was not highlighted without
\* a decoration.
C18_ToggleSwitches ==
  [][ToggleCommand /\ activeTextEditor # NoEditor =>
       /\ IF activeTextEditor \in DOMAIN activeDecorations
          THEN /\ activeTextEditor \notin DOMAIN activeDecorations'
               /\ decorations'[activeTextEditor] = noDecoration(markers)
          ELSE /\ activeTextEditor \in DOMAIN activeDecorations'
               /\ RangeOf(decorations'[activeTextEditor]["a"])
                    = linesOfPairs(split(textOf(activeTextEditor)), "a")
       /\ (activeTextEditor \in DOMAIN toggledTwice.activeDecorations)
            = (activeTextEditor \in DOMAIN activeDecorations)
       /\ activeTextEditor \notin DOMAIN activeDecorations =>
            toggledTwice.decorations[activeTextEditor] = decorations[activeTextEditor]
  ]_vars

\* Two toggles in a row have run and the active editor is highlighted again
C18_Witness ==
  /\ stage = "toggle toggle"
  /\ activeTextEditor = 1
  /\ 1 \in DOMAIN activeDecorations
  /\ decorations[1]["a"] = <<0, 1, 2>>


\* C19 as stated: after the clear command no editor keeps a decoration or
\* an entry in activeDecorations.
C19_ClearLeavesNothing ==
  stage = "clear" =>
    /\ activeDecorations = <<>>
    /\ \A e \in DOMAIN decorations : decorations[e] = noDecoration(markers)

\* C19: after the clear command no visible editor keeps a decoration or an
\* entry in activeDecorations; the entry of an editor that was highlighted
\* and then closed or covered stays.
C19_ClearLeavesNothingVisible ==
  stage = "clear" =>
    \A e \in DOMAIN editors :
      /\ e \notin DOMAIN activeDecorations
      /\ decorations[e] = noDecoration(markers)

\* The clear command has run on two visible editors
C19_Witness ==
  /\ stage = "clear"
  /\ DOMAIN editors = {1, 2}
  /\ activeDecorations = <<>>
  /\ autoHighlight

\* The clear command has run and the entry of the closed editor 2 is kept
C19_StaleEntry ==
  /\ stage = "clear"
  /\ DOMAIN editors = {1}
  /\ DOMAIN activeDecorations = {2}


\* A callback for editor e is waiting
timerSetFor(e) == \E k \in 1..Len(timers) : timers[k].editor = e

\* Editor e shows exactly the complete pairs of the text its document holds
upToDate(e) == decorated(e, "a") = linesOfPairs(split(textOf(e)), "a")

-----------------------------------------------------------------------------
(* provideFoldingRanges: unsupported input and the flags, under Spec *)

\* The document of call c has a language no parser knows, or the setting
\* syntaxFoldingLanguages does not list its language
unsupported(c) ==
  \/ docs[calls[c].doc].languageId = "plaintext"
  \/ config.syntaxFoldingLanguages = <<>>

C21_PlainTextWithRanges ==
  /\ calls["c1"].pc = "done"
  /\ docs["A"].languageId = "plaintext"
  /\ config.enableSyntaxFolding
  /\ ~calls["c1"].result.null

-----------------------------------------------------------------------------
(* The format marker / marker-end, under SpecHighlight *)

\* Line l carries the name of marker m and no token of any marker
carriesBare(l, m) ==
  /\ carries(l, m)
  /\ \A n \in RangeOf(markers) : ~carries(l, startToken(n)) /\ ~carries(l, endToken(n))

\* C22: a line that carries the bare name of marker m, followed by a line
\* that carries m-end with no line of m between, forms a highlight block:
\* applyHighlight decorates the lines from the one to the other.
C22_BareMarkerOpensBlock ==
  stage = "highlighted" =>
    \A m \in RangeOf(markers) :
      \A s \in 1..Len(lines), e \in 1..Len(lines) :
        /\ s < e
        /\ carriesBare(lines[s], m)
        /\ carries(lines[e], endToken(m))
        /\ \A i \in (s + 1)..(e - 1) : ~carries(lines[i], m)
        => (s - 1)..(e - 1) \subseteq decorated(1, m)

\* The README's example was highlighted and no line of it is decorated
C22_Witness ==
  /\ stage = "highlighted"
  /\ markers = <<"note">>
  /\ lines = <<"# note", "important_note = 1", "# note-end">>
  /\ decorations[1]["note"] = <<>>
  /\ 1 \in DOMAIN activeDecorations


\* What the scanner named which finds in the text of call c
foundBy(c, which) ==
  CASE which = "regex" -> getRegexBasedFolding(linesOf(c))
    [] which = "region" -> getRegionBasedFolding(linesOf(c))
    [] which = "indent" -> getIndentBasedFolding(linesOf(c))

\* C23: the result is the ranges of the marker scanner, then those of the
\* syntax scanner, then the run and region ranges if and only if
\* enableRegexFolding is on, then the indentation ranges if and only if
\* enableIndentFolding is on; and with enableSyntaxFolding off or a language
\* that syntaxFoldingLanguages does not cover, no call waits for an external
\* command, writes a temporary file or holds a syntax range.
C23_OnlyEnabledScannersContribute ==
  /\ \A c \in Returned :
       calls[c].allFoldingRanges =
         calls[c].highlightRanges \o calls[c].syntaxRanges
           \o (IF config.enableRegexFolding
               THEN foundBy(c, "regex") \o foundBy(c, "region") ELSE <<>>)
           \o (IF config.enableIndentFolding THEN foundBy(c, "indent") ELSE <<>>)
  /\ \A c \in CallIds :
       ~config.enableSyntaxFolding \/ unsupported(c) =>
         /\ calls[c].pc \in {"idle", "done"}
         /\ calls[c].oracle = <<>>
         /\ calls[c].syntaxRanges = <<>>
         /\ calls[c].tempFile = NoFile
         /\ tmpFiles = <<>>

\* A Python document with a region and every flag off: nothing is returned,
\* though the region scanner and the indentation scanner would find ranges
C23_Witness ==
  /\ calls["c1"].pc = "done"
  /\ calls["c1"].text = join(<<"# #region", "x = 1", "# #endregion">>)
  /\ ~config.enableSyntaxFolding /\ ~config.enableRegexFolding /\ ~config.enableIndentFolding
  /\ config.syntaxFoldingLanguages # <<>>
  /\ foundBy("c1", "region") # <<>>
  /\ calls["c1"].result.null

-----------------------------------------------------------------------------
(* The marker scanner, under SpecMarkers *)

\* C24: every range the marker scanner emits for marker m is a complete
\* pair (s, e): line s carries m-start, line e carries m-end, s < e and no
\* line strictly between carries a token of m; and every complete pair is
\* emitted, once. A later start replaces a pending one, an end without a
\* pending start does nothing and an end clears the pending start: starts
\* on lines 0 and 2 and ends on lines 4 and 6 give exactly (2,4).
C24_RangesAreCompletePairs ==
  stage = "scanned" =>
    \A m \in RangeOf(markers) :
      /\ \A k \in 1..Len(rangesOfMarker(m)) :
           completePair(lines, m, rangesOfMarker(m)[k][1], rangesOfMarker(m)[k][2])
      /\ RangeOf(rangesOfMarker(m)) = completePairs(lines, m)
      /\ Cardinality(completePairs(lines, m)) = Len(rangesOfMarker(m))

\* Starts on lines 0 and 2, ends on lines 4 and 6: exactly (2,4)
C24_Witness ==
  /\ stage = "scanned"
  /\ markers = <<"a">>
  /\ lines = <<"# a-start", "x", "# a-start", "x", "// a-end", "x", "// a-end">>
  /\ rangesOfMarker("a") = << <<2, 4>> >>
  /\ pending["a"] = NoBlock


\* The line holds the token as a whole: an occurrence that is not the tail
\* of a longer name
carriesWhole(line, token) ==
  \E i \in 1..Len(line) :
    /\ occursAt(line, token, i)
    /\ i = 1 \/ Ch(line, i - 1) \notin WordChars

\* C25: for two distinct markers m and n, a text whose lines hold tokens of
\* n only - no line holds m-start or m-end as a whole token - gives m no
\* range and no pending block, also when m is the tail of n (or, error).
C25_OnlyFullTokensMatch ==
  stage = "scanned" =>
    \A m \in RangeOf(markers), n \in RangeOf(markers) :
      (/\ m # n
       /\ \A i \in LineNumbers : ~carriesWhole(lines[i + 1], startToken(m))
                                 /\ ~carriesWhole(lines[i + 1], endToken(m)))
      => rangesOfMarker(m) = <<>> /\ pending[m] = NoBlock

\* error-start ... error-end alone, scanned with or and error configured:
\* the pair is emitted for or as well
C25_Witness ==
  /\ stage = "scanned"
  /\ markers = <<"or", "error">>
  /\ lines = <<"# error-start", "", "error-end">>
  /\ rangesOfMarker("error") = << <<0, 2>> >>
  /\ rangesOfMarker("or") = << <<0, 2>> >>

-----------------------------------------------------------------------------
(* Specification SpecBraces: the brace scanner on texts with headers whose
   braces close on the header line *)

BraceLines == {"if (x) {", "if (x) { a }", "  a", "}", "// }"}

\* The longest text of the brace specification, in lines
MaxBraceLines == 4

BracesInit ==
  /\ NoCalls
  /\ NoEditors
  /\ markers = <<>>
  /\ ranges = <<>>
  /\ pending = <<>>
  /\ stage = "input"
  /\ lines \in SeqsUpTo(BraceLines, MaxBraceLines) \ {<<>>}

BracesNext == ScanBraces

SpecBraces == BracesInit /\ [][BracesNext]_vars

\* The scanner reads line i: it is not blank and does not begin a comment
readByBraceScanner(i) ==
  LET trimmed == trim(lines[i + 1]) IN
  ~(trimmed = "" \/ startsWith(trimmed, "//") \/ startsWith(trimmed, "/*"))

\* The braces opened minus the braces closed on the lines s..k the scanner reads
RECURSIVE openBraces(_, _)
openBraces(s, k) ==
  IF k < s THEN 0
  ELSE openBraces(s, k - 1)
       + (IF readByBraceScanner(k)
          THEN countMatches(lines[k + 1], "{") - countMatches(lines[k + 1], "}")
          ELSE 0)

\* C26: for every range (s, e) of the brace scanner the braces opened from
\* line s on are still open at the end of each of the lines s..e-1 and are
\* closed at the end of line e; a header whose braces open and close on the
\* header line itself starts no range.
C26_RangeEndsAtRealClose ==
  stage = "braces" =>
    /\ \A r \in Spans(ranges) :
         /\ \A k \in r[1]..(r[2] - 1) : openBraces(r[1], k) > 0
         /\ openBraces(r[1], r[2]) = 0
    /\ \A s \in LineNumbers :
         (/\ readByBraceScanner(s)
          /\ matchedPattern(javaScriptPatterns, lines[s + 1])
          /\ openBraces(s, s) = 0)
         => \A r \in Spans(ranges) : r[1] # s

\* A header that closes its brace itself is folded with the statement
\* after it
C26_Witness ==
  /\ stage = "braces"
  /\ lines = <<"if (x) { a }", "  a">>
  /\ SpanList(ranges) = << <<0, 1>> >>

-----------------------------------------------------------------------------
(* The JSON scanner on lines with several delimiters, under SpecDelim *)

RECURSIVE delimitersFrom(_, _, _)
delimitersFrom(ls, d, i) ==
  IF i > Len(ls) THEN 0 ELSE countMatches(ls[i], d) + delimitersFrom(ls, d, i + 1)

\* Every open of the text has its close and every close its open
balanced(ls, open, close) ==
  2 * Len(matchedPairs(ls, open, close))
    = delimitersFrom(ls, open, 1) + delimitersFrom(ls, close, 1)

\* The matched pairs of braces and of brackets that span lines
pairsAcrossLines ==
  SelectSeq(matchedPairs(lines, "{", "}") \o matchedPairs(lines, "[", "]"),
            LAMBDA p : p[2] > p[1])

\* C27: on a text whose braces and brackets are balanced the JSON scanner
\* emits one range (open line, close line) for every matched pair whose
\* delimiters are on different lines and nothing else, also when a line
\* holds a close followed by an open or two opens.
C27_PairsPerOccurrence ==
  (/\ stage = "json"
   /\ balanced(lines, "{", "}")
   /\ balanced(lines, "[", "]"))
  => /\ Len(ranges) = Len(pairsAcrossLines)
     /\ \A k \in 1..Len(pairsAcrossLines) :
          occurrences(SpanList(ranges), pairsAcrossLines[k])
            = occurrences(pairsAcrossLines, pairsAcrossLines[k])

\* Two objects, the second opened on the line that closes the first: the
\* scanner emits (0,2), which is neither pair
C27_Witness ==
  /\ stage = "json"
  /\ lines = <<"{", "}, {", "}">>
  /\ pairsAcrossLines = << <<0, 1>>, <<1, 2>> >>
  /\ SpanList(ranges) = << <<0, 2>> >>

-----------------------------------------------------------------------------
(* The indentation scanner, under SpecIndent *)

\* The scanner's states: sts[i + 1] is its state before the loop reads line i,
\* sts[Len(lines) + 1] its state after the loop
RECURSIVE indentStatesFrom(_, _)
indentStatesFrom(sts, i) ==
  IF i >= Len(lines) THEN sts
  ELSE indentStatesFrom(Append(sts, indentStep(lines, i, sts[Len(sts)])), i + 1)

indentStates ==
  indentStatesFrom(<< [stack |-> <<>>, strings |-> <<>>, out |-> <<>>] >>, 0)

\* The ranges pushed while the loop reads line i
emittedAt(sts, i) == SubSeq(sts[i + 2].out, Len(sts[i + 1].out) + 1, Len(sts[i + 2].out))

\* The ranges pushed after the loop
emittedAtEnd(sts) == flushStack(lines, sts[Len(lines) + 1].stack, Len(lines))

\* Range r ends on a non-blank line, and every line from the next one up to
\* line i - 1 is blank
endsBefore(r, i) ==
  /\ r.endLine < i
  /\ ~isBlank(lines[r.endLine + 1])
  /\ \A k \in (r.endLine + 1)..(i - 1) : isBlank(lines[k + 1])

allEndBefore(rs, i) == \A k \in 1..Len(rs) : endsBefore(rs[k], i)

\* Along the states sts, every range pushed while line i is read ends on the
\* last non-blank line before i, and every range pushed after the loop on
\* the last non-blank line of the text
endOnContent(sts, atEnd) ==
  /\ ranges = sts[Len(lines) + 1].out \o atEnd
  /\ \A i \in LineNumbers : allEndBefore(emittedAt(sts, i), i)
  /\ allEndBefore(atEnd, Len(lines))

\* C28: a range the indentation scanner pushes while it reads line i - on a
\* dedent or when it flushes before a multi-line string - ends on the last
\* non-blank line strictly before line i, and a range pushed at the end of
\* the input ends on the last non-blank line of the text; no range ends on
\* a blank line.
C28_NeverFoldsToBlankLine ==
  stage = "indent" =>
    /\ endOnContent(indentStates, emittedAtEnd(indentStates))
    /\ \A k \in 1..Len(ranges) : ~isBlank(lines[ranges[k].endLine + 1])

\* A block closed by a dedent after a blank line, and a block closed by the
\* end of the input after a blank line
C28_Witness ==
  /\ stage = "indent"
  /\ lines = <<"def f():", "    x = 1", "", "if x:">>
  /\ SpanList(emittedAt(indentStates, 3)) = << <<0, 1>> >>
  /\ SpanList(ranges) = << <<0, 1>> >>


\* The non-blank lines below line s down to line e
contentBelow(s, e) == {k \in (s + 1)..e : ~isBlank(lines[k + 1])}

\* C29: a range of the indentation scanner whose start line is not a
\* structural header holds more than one non-blank line below its start;
\* the lines a, b (indented), c give no range.
C29_PlainBlockNeedsTwoLines ==
  stage = "indent" =>
    \A k \in 1..Len(ranges) :
      ~isImportantStructure(lines[ranges[k].startLine + 1])
        => Cardinality(contentBelow(ranges[k].startLine, ranges[k].endLine)) > 1

\* The lines a, b (indented), c: the block of a, with the one line b below
\* it, is folded
C29_Witness ==
  /\ stage = "indent"
  /\ lines = <<"a", "  b", "c">>
  /\ SpanList(ranges) = << <<0, 1>> >>


\* A line with an odd number of triple-quote tokens of one kind: it opens a
\* multi-line string, or closes the open one
oddQuotes(line) ==
  \/ countMatches(line, TripleDouble) % 2 = 1
  \/ countMatches(line, TripleSingle) % 2 = 1

\* The first line from line i on that satisfies Q, Len(lines) when none does
firstFrom(i, Q(_)) ==
  IF \E k \in i..(Len(lines) - 1) : Q(k)
  THEN CHOOSE k \in i..(Len(lines) - 1) : Q(k) /\ \A j \in i..(k - 1) : ~Q(j)
  ELSE Len(lines)

\* The line that opens the docstring of header h: the first non-blank line
\* below it
docstringOpen(h) == firstFrom(h + 1, LAMBDA k : ~isBlank(lines[k + 1]))

\* The line that closes the docstring of header h
docstringClose(h) == firstFrom(docstringOpen(h) + 1, LAMBDA k : oddQuotes(lines[k + 1]))

\* The first line below the docstring of header h at the header's indentation
\* or less
blockStop(h) ==
  firstFrom(docstringClose(h) + 1,
            LAMBDA k : /\ ~isBlank(lines[k + 1])
                       /\ searchNonSpace(lines[k + 1]) <= searchNonSpace(lines[h + 1]))

\* Line h is a structural header read outside any string, its body begins
\* with the opening line of a docstring, and every string of the text is closed
headerWithDocstring(h) ==
  /\ isImportantStructure(lines[h + 1])
  /\ \A k \in 0..(h - 1) : ~oddQuotes(lines[k + 1])
  /\ docstringOpen(h) < Len(lines)
  /\ oddQuotes(lines[docstringOpen(h) + 1])
  /\ Cardinality({k \in LineNumbers : oddQuotes(lines[k + 1])}) % 2 = 0

\* The range of header h is the one from h to the last non-blank line of its
\* block, and no other range starts at h
foldsWholeBlock(h) ==
  \A e \in LineNumbers :
    <<h, e>> \in RangeOf(SpanList(ranges)) <=> e = lastContentLine(lines, h, blockStop(h) - 1)

\* C30: for a structural header whose body begins with a multi-line docstring,
\* the indentation scanner emits the range from the header to the last
\* non-blank line of the header's block, neither cut short in or after the
\* docstring nor extended past the first later line at the header's
\* indentation or less.
C30_DocstringKeepsBlock ==
  stage = "indent" =>
    \A h \in LineNumbers : headerWithDocstring(h) => foldsWholeBlock(h)

\* The docstring opens within three lines of the header and no string opens
\* below it
docstringOnly(h) ==
  /\ docstringOpen(h) - h <= 3
  /\ \A k \in (docstringClose(h) + 1)..(Len(lines) - 1) : ~oddQuotes(lines[k + 1])

\* A header whose only multi-line string is its docstring is folded with its
\* whole block
C30_DocstringOnlyKeepsBlock ==
  stage = "indent" =>
    \A h \in LineNumbers : headerWithDocstring(h) /\ docstringOnly(h) => foldsWholeBlock(h)

\* A header, its two-line docstring and a two-line string as its body: the
\* range of the header stops at the docstring
C30_Witness ==
  /\ stage = "indent"
  /\ lines = <<"def f():", "    s = \"\"\"a", "    b\"\"\"", "    s = \"\"\"a", "    b\"\"\"">>
  /\ headerWithDocstring(0)
  /\ blockStop(0) = 5
  /\ SpanList(ranges) = << <<0, 2>> >>


\* The text with the two lines of every string replaced by ordinary body
\* lines of the same indentation
ordinaryLine(line) ==
  IF line = "    s = \"\"\"a" THEN "    x = 1"
  ELSE IF line = "    b\"\"\"" THEN "    y = 2"
  ELSE line

asOrdinaryLines == [k \in 1..Len(lines) |-> ordinaryLine(lines[k])]

\* Every string of the text is a two-line string: an opening line directly
\* followed by its closing line
twoLineStrings ==
  /\ \A k \in LineNumbers :
       lines[k + 1] = "    s = \"\"\"a" => k + 1 < Len(lines) /\ lines[k + 2] = "    b\"\"\""
  /\ \A k \in LineNumbers :
       lines[k + 1] = "    b\"\"\"" => k > 0 /\ lines[k] = "    s = \"\"\"a"

\* Line k opens a string inside the open block of a structural header h, and
\* the line before it is a body line, not a header
stringInBody(k) ==
  /\ lines[k + 1] = "    s = \"\"\"a"
  /\ k > 0
  /\ ~isBlank(lines[k])
  /\ ~isStructureDefinition(lines[k])
  /\ \E h \in 0..(k - 1) :
       /\ isImportantStructure(lines[h + 1])
       /\ \A j \in (h + 1)..k :
            ~isBlank(lines[j + 1]) => searchNonSpace(lines[j + 1]) > searchNonSpace(lines[h + 1])

\* C31: when a multi-line string starts inside an open block, not directly
\* after a structural header, the indentation scanner gives the ranges it
\* gives for the text whose string lines are ordinary body lines.
C31_StringLinesAsBodyLines ==
  (stage = "indent" /\ twoLineStrings /\ \E k \in LineNumbers : stringInBody(k))
    => SpanList(ranges) = SpanList(getIndentBasedFolding(asOrdinaryLines))

\* A function body with a statement and a two-line string: the range of the
\* function ends before the string, where the text of ordinary lines gives
\* the whole body
C31_Witness ==
  /\ stage = "indent"
  /\ lines = <<"def f():", "    x = 1", "    s = \"\"\"a", "    b\"\"\"">>
  /\ twoLineStrings
  /\ stringInBody(2)
  /\ SpanList(ranges) = << <<0, 1>> >>
  /\ SpanList(getIndentBasedFolding(asOrdinaryLines)) = << <<0, 3>> >>


-----------------------------------------------------------------------------
(* Specification SpecQuotes: the indentation scanner on texts with strings of
   both quote styles *)

QuoteLines ==
  {"def f():", "    s = \"\"\"a", "    b\"\"\"", "    t = '''c", "    d'''", "    x = 1"}

\* The longest text of the quote specification, in lines
MaxQuoteLines == 4

QuotesInit ==
  /\ NoCalls
  /\ NoEditors
  /\ markers = <<>>
  /\ ranges = <<>>
  /\ pending = <<>>
  /\ stage = "input"
  /\ lines \in SeqsUpTo(QuoteLines, MaxQuoteLines) \ {<<>>}

QuotesNext == ScanIndent

SpecQuotes == QuotesInit /\ [][QuotesNext]_vars

\* The quote style whose token count is odd on the line (the double style
\* is read first)
styleOf(line) ==
  IF countMatches(line, TripleDouble) % 2 = 1 THEN "double"
  ELSE IF countMatches(line, TripleSingle) % 2 = 1 THEN "single"
  ELSE "none"

\* Along the states sts: line i is read inside a string, and has an odd
\* count of tokens of the other style only
otherStyleInside(sts, i) ==
  /\ Len(sts[i + 1].strings) > 0
  /\ styleOf(lines[i + 1]) # "none"
  /\ countMatches(lines[i + 1],
                  IF styleOf(lines[sts[i + 1].strings[Len(sts[i + 1].strings)] + 1]) = "double"
                  THEN TripleDouble ELSE TripleSingle) % 2 = 0

stringStaysOpen(sts) ==
  \A i \in LineNumbers : otherStyleInside(sts, i) => sts[i + 2].strings = sts[i + 1].strings

\* C32: a line inside an open multi-line string with an odd number of
\* triple-quote tokens of the other style does not end the string; only an
\* odd count of the style that opened it does.
C32_OnlySameStyleCloses ==
  stage = "indent" => stringStaysOpen(indentStates)

\* A docstring opened with the double style whose second line holds a token
\* of the single style: the string is closed there, and the line that should
\* close it opens a string
C32_Witness ==
  /\ stage = "indent"
  /\ lines = <<"def f():", "    s = \"\"\"a", "    t = '''c", "    b\"\"\"">>
  /\ otherStyleInside(indentStates, 2)
  /\ indentStates[3].strings = <<1>>
  /\ indentStates[4].strings = <<>>
  /\ indentStates[5].strings = <<3>>
  /\ SpanList(ranges) = << <<0, 2>> >>


-----------------------------------------------------------------------------
(* Specification SpecRuns: whole-text run detection on texts with comments
   and strings of two and of three lines *)

RunLines ==
  {"// a", "// b", "# a", "/* a", "b */", "s = \"\"\"a", "b\"\"\"", "x = 1"}

\* The longest text of the run specification, in lines
MaxRunLines == 3

RunsInit ==
  /\ NoCalls
  /\ NoEditors
  /\ markers = <<>>
  /\ ranges = <<>>
  /\ pending = <<>>
  /\ stage = "input"
  /\ lines \in SeqsUpTo(RunLines, MaxRunLines) \ {<<>>}

\* getRegexBasedFolding(lines) is called
ScanRuns ==
  /\ stage = "input"
  /\ stage' = "regex"
  /\ ranges' = getRegexBasedFolding(lines)
  /\ UNCHANGED <<lines, markers, pending, docs, config, calls, tmpFiles, now, returned, uiVars>>

RunsNext == ScanRuns

SpecRuns == RunsInit /\ [][RunsNext]_vars

\* Lines s..e are a maximal run of consecutive line comments that begin
\* with tok
commentRun(s, e, tok) ==
  /\ s < e
  /\ \A k \in s..e : startsWith(trimStart(lines[k + 1]), tok)
  /\ s > 0 => ~startsWith(trimStart(lines[s]), tok)
  /\ e + 1 < Len(lines) => ~startsWith(trimStart(lines[e + 2]), tok)

\* Lines s..e are the first construct of the text that open opens and close
\* closes: line s is the first line with open, line e the first line below
\* it with close
firstConstruct(s, e, open, close) ==
  /\ s < e
  /\ includes(lines[s + 1], open)
  /\ countMatches(lines[s + 1], open) = 1
  /\ ~includes(lines[s + 1], "*/")
  /\ \A k \in 0..(s - 1) : ~includes(lines[k + 1], open)
  /\ includes(lines[e + 1], close)
  /\ \A k \in (s + 1)..(e - 1) : ~includes(lines[k + 1], close)

\* Lines s..e are a block comment, a triple-quoted string or a run of line
\* comments
construct(s, e) ==
  \/ commentRun(s, e, "//")
  \/ commentRun(s, e, "#")
  \/ firstConstruct(s, e, "/*", "*/")
  \/ firstConstruct(s, e, TripleDouble, TripleDouble)
  \/ firstConstruct(s, e, TripleSingle, TripleSingle)

\* C33: a block comment, a triple-quoted string or a run of consecutive
\* same-style line comments over the lines s..e, e >= s + 1, gives the range
\* (s, e); two consecutive comment lines give (s, s + 1).
C33_TwoLineConstructsFold ==
  stage = "regex" =>
    \A s \in LineNumbers : \A e \in LineNumbers :
      construct(s, e) => <<s, e>> \in RangeOf(SpanList(ranges))

\* A construct of three lines or more gives its range
C33_ThreeLineConstructsFold ==
  stage = "regex" =>
    \A s \in LineNumbers : \A e \in LineNumbers :
      (construct(s, e) /\ e > s + 1) => <<s, e>> \in RangeOf(SpanList(ranges))

\* Two consecutive // comment lines and a line of code: no range
C33_Witness ==
  /\ stage = "regex"
  /\ lines = <<"// a", "// b", "x = 1">>
  /\ commentRun(0, 1, "//")
  /\ ranges = <<>>


-----------------------------------------------------------------------------
(* The ranges of one run of the indentation scanner, under SpecIndent *)

disjoint(a, b) == a.endLine < b.startLine \/ b.endLine < a.startLine

contains(a, b) == a.startLine <= b.startLine /\ b.endLine <= a.endLine

\* Any two of the ranges rs are disjoint, or one contains the other
laminar(rs) ==
  \A j \in 1..Len(rs) : \A k \in 1..Len(rs) :
    disjoint(rs[j], rs[k]) \/ contains(rs[j], rs[k]) \/ contains(rs[k], rs[j])

\* C34: any two ranges of one run of getIndentBasedFolding are disjoint or
\* nested; no two of them overlap in part.
C34_RangesAreLaminar ==
  stage = "indent" => laminar(ranges)


\* Specification SpecNested: the indentation scanner on texts with comment
\* lines at two indentations and code below them
NestedLines == {"# c", "    # c", "        x = 1", "    w = 3"}

\* The longest text of the nested specification, in lines
MaxNestedLines == 5

NestedInit ==
  /\ NoCalls
  /\ NoEditors
  /\ markers = <<>>
  /\ ranges = <<>>
  /\ pending = <<>>
  /\ stage = "input"
  /\ lines \in SeqsUpTo(NestedLines, MaxNestedLines) \ {<<>>}

NestedNext == ScanIndent

SpecNested == NestedInit /\ [][NestedNext]_vars

\* A comment, an indented comment with two lines below it, and a line at the
\* indentation of the second comment: the block of the inner comment keeps
\* its start, the block of the outer one is shifted into it
C34_Witness ==
  /\ stage = "indent"
  /\ lines = <<"# c", "    # c", "        x = 1", "        x = 1", "    w = 3">>
  /\ SpanList(ranges) = << <<1, 3>>, <<2, 4>> >>
  /\ ~laminar(ranges)


-----------------------------------------------------------------------------
(* Specification SpecHeaders: the header-driven indentation scanner of the
   syntax provider on texts with blank lines and comments *)

HeaderLines == {"def f():", "    x = 1", "x = 2", "# c", ""}

\* The longest text of the header specification, in lines
MaxHeaderLines == 4

HeadersInit ==
  /\ NoCalls
  /\ NoEditors
  /\ markers = <<>>
  /\ ranges = <<>>
  /\ pending = <<>>
  /\ stage = "input"
  /\ lines \in SeqsUpTo(HeaderLines, MaxHeaderLines) \ {<<>>}

\* findBlocksWithIndent(lines, patterns, foldingRanges) is called with the
\* patterns of Python
ScanHeaders ==
  /\ stage = "input"
  /\ stage' = "python"
  /\ ranges' = parsePythonWithRegex(lines)
  /\ UNCHANGED <<lines, markers, pending, docs, config, calls, tmpFiles, now, returned, uiVars>>

HeadersNext == ScanHeaders

SpecHeaders == HeadersInit /\ [][HeadersNext]_vars

\* Line e is a non-blank line indented deeper than line s
bodyLineOf(s, e) ==
  /\ ~isBlank(lines[e + 1])
  /\ searchNonSpace(lines[e + 1]) > searchNonSpace(lines[s + 1])

\* C35: every range (s, e) of findBlocksWithIndent starts on a line that
\* matches a header pattern and ends on a non-blank line indented deeper
\* than line s, and a header with no such line below it starts no range.
C35_EndsAtLastBodyLine ==
  stage = "python" =>
    /\ \A k \in 1..Len(ranges) :
         /\ matchedPattern(pythonPatterns, lines[ranges[k].startLine + 1])
         /\ bodyLineOf(ranges[k].startLine, ranges[k].endLine)
    /\ \A h \in LineNumbers :
         (\A e \in (h + 1)..(Len(lines) - 1) : ~bodyLineOf(h, e))
           => \A k \in 1..Len(ranges) : ranges[k].startLine # h

\* Every range starts on a line that matches a header pattern and ends
\* on the line before the line that closes the block, or on the last line
C35_EndsBeforeNextLine ==
  stage = "python" =>
    \A k \in 1..Len(ranges) :
      /\ matchedPattern(pythonPatterns, lines[ranges[k].startLine + 1])
      /\ ranges[k].startLine < ranges[k].endLine
      /\ \A j \in (ranges[k].startLine + 1)..ranges[k].endLine :
           isBlank(lines[j + 1]) \/ isHashComment(lines[j + 1]) \/ bodyLineOf(ranges[k].startLine, j)

\* A function whose body is followed by a blank line and a statement: the
\* range ends on the blank line
C35_Witness ==
  /\ stage = "python"
  /\ lines = <<"def f():", "    x = 1", "", "x = 2">>
  /\ SpanList(ranges) = << <<0, 2>> >>
  /\ isBlank(lines[3])


-----------------------------------------------------------------------------
(* Specification SpecDotted: the marker scanner and the highlighter on one
   text, for a marker name with a character that is special in a pattern *)

DottedLines == {"# a.b-start", "# aXb-start", "# a.b-end", "# aXb-end", "x"}

\* The longest text of the dotted specification, in lines
MaxDottedLines == 3

DottedInit ==
  /\ NoCalls
  /\ NoEditors
  /\ ranges = <<>>
  /\ pending = <<>>
  /\ stage = "input"
  /\ markers = <<"a.b">>
  /\ lines \in SeqsUpTo(DottedLines, MaxDottedLines) \ {<<>>}

DottedNext == ScanMarkers

SpecDotted == DottedInit /\ [][DottedNext]_vars

\* The blocks findHighlightBlocks returns for the text, over all markers
highlightedBlocks ==
  UNION {{<<b.startLine, b.endLine>> : b \in RangeOf(findHighlightBlocks(join(lines), markers)[m])} :
           m \in RangeOf(markers)}

\* C36: the marker ranges of getHighlightBlockFoldingRanges are, as a set of
\* (startLine, endLine) pairs, the blocks findHighlightBlocks returns over
\* all markers.
C36_FoldsWhatIsHighlighted ==
  stage = "scanned" => RangeOf(SpanList(ranges)) = highlightedBlocks

\* For the marker a.b, a start and an end line that hold aXb: a highlighted
\* block, and no range
C36_Witness ==
  /\ stage = "scanned"
  /\ markers = <<"a.b">>
  /\ lines = <<"# aXb-start", "x", "# aXb-end">>
  /\ highlightedBlocks = {<<0, 2>>}
  /\ ranges = <<>>


-----------------------------------------------------------------------------
(* After a highlight was cleared, under SpecEditor *)

\* The toggle command or the clear command has just cleared editor e
justCleared(e) ==
  /\ e \in DOMAIN editors
  /\ e \notin DOMAIN activeDecorations
  /\ decorations[e] = noDecoration(markers)
  /\ \/ stage = "clear"
     \/ stage \in {"toggle", "toggle toggle"} /\ e = activeTextEditor

\* C37: once the toggle command or the clear command has cleared an
\* editor's highlight, no step but a toggle gives the editor a decoration
\* or an entry in activeDecorations: no timer, change of editor, of the
\* visible editors or of the configuration re-applies the highlight.
C37_ClearedStaysOff ==
  [][\A e \in EditorIds :
       (justCleared(e) /\ stage' \notin {"toggle", "toggle toggle"} /\ e \in DOMAIN editors')
         => /\ e \notin DOMAIN activeDecorations'
            /\ decorations'[e] = noDecoration(markers)
  ]_vars

\* With autoHighlight off and no timer waiting, the cleared editor stays as
\* it is
C37_ClearedStaysOffWithoutAuto ==
  [][\A e \in EditorIds :
       (/\ justCleared(e) /\ stage' \notin {"toggle", "toggle toggle"} /\ e \in DOMAIN editors'
        /\ ~autoHighlight /\ ~autoHighlight' /\ timers = <<>>)
         => /\ e \notin DOMAIN activeDecorations'
            /\ decorations'[e] = noDecoration(markers)
  ]_vars

\* The toggle command has cleared the active editor, whose text holds a
\* block, while the timer of a change of that text is waiting
C37_Witness ==
  /\ stage = "toggle"
  /\ activeTextEditor = 1
  /\ justCleared(1)
  /\ timers = <<[editor |-> 1, document |-> editors[1]]>>
  /\ findHighlightBlocks(textOf(1), markers)["a"] # <<>>

=============================================================================
